---------------------------- MODULE Spec2Model ----------------------------
(***************************************************************************)
(* A model of the ad9361-rs bridge: the special-purpose allocator that     *)
(* serves the foreign driver (src/src/interop/alloc.rs) and the device     *)
(* handle's life cycle (src/src/ad9361.rs).                                *)
(*                                                                         *)
(* Pointers are byte addresses (naturals); a *mut u32 advances by 4 bytes  *)
(* per element.  A panic is an outcome of a call: the assignments the code *)
(* made before the failing assertion stay in the statics, as they do when  *)
(* the panic unwinds into the test harness (tests::overflow_heap).         *)
(***************************************************************************)
EXTENDS Integers, Sequences, FiniteSets, TLC

\* ---------------------------------------------------------------- bounds
MaxHeapLen == 5      \* longest heap buffer, in u32 words
MaxSize == 13        \* largest size handed to admalloc, in bytes
MaxNmemb == 2        \* largest element count handed to adcalloc
MaxOverrun == 1      \* how many words past HEAP_END the cursor is followed
MaxHandles == 2      \* handle values the program may hold over its run
MaxInits == 2        \* foreign states the driver creates over a run
MaxDriverBlocks == 2  \* allocations the driver makes within one ad9361_init
MaxInt == 2          \* integer arguments of the accessors: up to this
MaxRaw == 12         \* raw u8/u32 values the driver reports: 0..MaxRaw
MaxChannel == 1      \* channel arguments: 0..MaxChannel
MaxExcess == 1       \* how far past a limit an argument is drawn
MaxThreads == 3      \* threads that call new() and drop their handle
MaxShort == 2        \* the longest of the short coefficient slices

\* ------------------------------------------------------- program constants
NULL == 0            \* ptr::null_mut()
ScratchpadLen == 8   \* SCRATCHPAD: [u8; 8], and the threshold `size < 8`
SizeOfU32 == 4       \* size_of::<u32>(), the element of every heap pointer
ScratchpadAddr == 16 \* where the static SCRATCHPAD lives
HeapAddr == 64       \* where the caller's heap buffer lives
NoPtr == -1          \* "no pointer returned" (a panic, or a void function)
OffParams == 8       \* offset of the field `params` in an Ad9361
OffSpi == 16         \* offset of the field `spi`
OffDelay == 24       \* offset of the field `delay`
OffResetb == 32      \* offset of the field `resetb`
HandleAddrA == 256   \* a place a handle value may live at
HandleAddrB == 512   \* another place
StackAddr == 1024    \* init()'s stack frame: the local `resetb: &RESETB`
ENODEV == 19         \* the driver's error status is -ENODEV
NoStatus == 1        \* "no status": the call panicked or returns none
EINVAL == 22         \* a second errno of the driver
Millis == 1000       \* (t.0 as f32) / 1000.

Sizes == 0..MaxSize
Nmembs == 1..MaxNmemb
HeapLens == 2..MaxHeapLen
HeapStarts == {HeapAddr}
MaxAddr == HeapAddr + SizeOfU32 * (MaxHeapLen + MaxOverrun)
\* the pointers a caller may hand to adfree: null, the scratchpad, any word
\* of the heap region the cursor can reach, and an address inside the
\* scratchpad that is not its start
FreePtrs == {NULL, ScratchpadAddr, ScratchpadAddr + SizeOfU32}
            \cup {HeapAddr + SizeOfU32 * i : i \in 0..(MaxHeapLen + MaxOverrun)}

VARIABLES
    HEAP_START,           \* static mut HEAP_START: *mut u32
    HEAP_TOP,             \* static mut HEAP_TOP: the bump cursor
    HEAP_PREVIOUS,        \* static mut HEAP_PREVIOUS
    HEAP_END,             \* static mut HEAP_END
    SCRATCHPAD_ALLOCATED, \* static mut SCRATCHPAD_ALLOCATED: u8
    debug_assertions,     \* the build profile: cfg!(debug_assertions)
    ret,                  \* the last call: its name, arguments and outcome
    written,              \* the byte addresses the last call stored zero to
    issued,               \* caller's view: the heap blocks returned, in order,
                          \* since the cursor was last reset or rewound
    lastReturned,         \* caller's view: the heap address returned last
    TAKEN,                \* static TAKEN: AtomicBool
    handles,              \* the Ad9361 values, by slot
    DELAY_MS,             \* static mut DELAY_MS (the DELAY type it is for)
    DELAY_US,             \* static mut DELAY_US
    DELAY_OBJECT,         \* static mut DELAY_OBJECT
    pc,                   \* where the running handle operation stands
    cur,                  \* the handle whose operation is running
    phys,                 \* the driver's ad9361_rf_phy states, by creation
    building,             \* blocks of the state ad9361_init is building
    ffi_log,              \* the driver entry points the operation called
    res,                  \* the last handle operation and its outcome
    stored,               \* the driver: the value the last setter handed it
    returned,             \* what the last call of the typed API returned
    txn,                  \* the Ad9361Transaction last decoded
    fir,                  \* the FIR configuration a builder chain holds
    fir_ret,              \* the last call on the FIR builder and its outcome
    gt,                   \* the GainTable a caller holds
    gt_ret,               \* the last call on the gain table and its outcome
    threads,              \* the threads that make and drop handles: where
                          \* each stands and how its last call ended
    cb                    \* the callback the driver made last, if the last
                          \* step was one: the wrapper and object it reached

allocStatics == <<HEAP_START, HEAP_TOP, HEAP_PREVIOUS, HEAP_END,
                  SCRATCHPAD_ALLOCATED>>
allocVars == <<HEAP_START, HEAP_TOP, HEAP_PREVIOUS, HEAP_END,
               SCRATCHPAD_ALLOCATED, debug_assertions, ret, written,
               issued, lastReturned>>
handleVars == <<TAKEN, handles, DELAY_MS, DELAY_US, DELAY_OBJECT, pc, cur,
                phys, building, ffi_log, res>>
\* what only some of the specifications below are about
accessVars == <<stored, returned>>
codecVars == <<txn, fir, fir_ret, gt, gt_ret, threads>>
sideVars == <<cb, accessVars, codecVars>>
vars == <<allocVars, handleVars, sideVars>>

Call(op, a, b, ptr, panicked) ==
    [op |-> op, a |-> a, b |-> b, ptr |-> ptr, panicked |-> panicked]

\* ------------------------------------------------------------- allocator

\* a rounding slip: the word count rounded down
Words_RoundedDown(size) == size \div SizeOfU32

\* let words = (size + 3) / 4;
Words(size) == (size + 3) \div SizeOfU32

\* HEAP_TOP.add(words)
PtrAdd(p, words) == p + SizeOfU32 * words

\* an off-by-one slip in the capacity check
HeapFits_OneWordOver(top, end) == (top - end) \div SizeOfU32 <= 1

\* assert!(HEAP_TOP.offset_from(HEAP_END) <= 0, ...), on the advanced cursor
HeapFits(top, end) == (top - end) \div SizeOfU32 <= 0

\* ptr::write_bytes(mem, 0, count) on mem: *mut u32 stores count elements of
\* size_of::<u32>() bytes each
write_bytes(dst, count) == {dst + i : i \in 0..(count * SizeOfU32 - 1)}

\* The outcome of admalloc(size) in the current state: the statics it
\* leaves, the pointer it returns, whether it panicked.
Malloc(size) ==
    IF size < ScratchpadLen
    THEN IF debug_assertions /\ SCRATCHPAD_ALLOCATED # 0
         THEN [top |-> HEAP_TOP, prev |-> HEAP_PREVIOUS,
               scratch |-> SCRATCHPAD_ALLOCATED,
               ptr |-> NoPtr, panicked |-> TRUE]
         ELSE [top |-> HEAP_TOP, prev |-> HEAP_PREVIOUS, scratch |-> 1,
               ptr |-> ScratchpadAddr, panicked |-> FALSE]
    ELSE IF HEAP_TOP = NULL
         THEN [top |-> HEAP_TOP, prev |-> HEAP_PREVIOUS,
               scratch |-> SCRATCHPAD_ALLOCATED,
               ptr |-> NoPtr, panicked |-> TRUE]
         ELSE LET words == Words(size)
                  top == PtrAdd(HEAP_TOP, words)
              IN  IF HeapFits(top, HEAP_END)
                  THEN [top |-> top, prev |-> HEAP_TOP,
                        scratch |-> SCRATCHPAD_ALLOCATED,
                        ptr |-> HEAP_TOP, panicked |-> FALSE]
                  ELSE [top |-> top, prev |-> HEAP_TOP,
                        scratch |-> SCRATCHPAD_ALLOCATED,
                        ptr |-> NoPtr, panicked |-> TRUE]

\* adfree without its "deallocate everything" branch
Free_NoFullReset(ptr) ==
    IF ptr = NULL
    THEN [top |-> HEAP_TOP, scratch |-> SCRATCHPAD_ALLOCATED]
    ELSE IF ptr = ScratchpadAddr
    THEN [top |-> HEAP_TOP, scratch |-> 0]
    ELSE IF ptr = HEAP_PREVIOUS
    THEN [top |-> HEAP_PREVIOUS, scratch |-> SCRATCHPAD_ALLOCATED]
    ELSE [top |-> HEAP_TOP, scratch |-> SCRATCHPAD_ALLOCATED]

\* The statics adfree(ptr) leaves.
Free(ptr) ==
    IF ptr = NULL
    THEN [top |-> HEAP_TOP, scratch |-> SCRATCHPAD_ALLOCATED]
    ELSE IF ptr = ScratchpadAddr
    THEN [top |-> HEAP_TOP, scratch |-> 0]
    ELSE IF ptr = HEAP_START
    THEN [top |-> HEAP_START, scratch |-> SCRATCHPAD_ALLOCATED]
    ELSE IF ptr = HEAP_PREVIOUS
    THEN [top |-> HEAP_PREVIOUS, scratch |-> SCRATCHPAD_ALLOCATED]
    ELSE [top |-> HEAP_TOP, scratch |-> SCRATCHPAD_ALLOCATED]

init_admalloc(heap_start, heap_len) ==
    /\ HEAP_START' = heap_start
    /\ HEAP_TOP' = heap_start
    /\ HEAP_END' = PtrAdd(heap_start, heap_len)
    /\ SCRATCHPAD_ALLOCATED' = 0
    /\ UNCHANGED HEAP_PREVIOUS
    /\ written' = {}
    /\ ret' = Call("init_admalloc", heap_start, heap_len, NoPtr, FALSE)

admalloc(size) ==
    LET r == Malloc(size) IN
    /\ r.top <= MaxAddr
    /\ HEAP_TOP' = r.top
    /\ HEAP_PREVIOUS' = r.prev
    /\ SCRATCHPAD_ALLOCATED' = r.scratch
    /\ UNCHANGED <<HEAP_START, HEAP_END>>
    /\ written' = {}
    /\ ret' = Call("admalloc", size, 0, r.ptr, r.panicked)

adcalloc(nmemb, size) ==
    LET r == Malloc(nmemb * size) IN
    /\ r.top <= MaxAddr
    /\ HEAP_TOP' = r.top
    /\ HEAP_PREVIOUS' = r.prev
    /\ SCRATCHPAD_ALLOCATED' = r.scratch
    /\ UNCHANGED <<HEAP_START, HEAP_END>>
    /\ written' = IF r.panicked THEN {} ELSE write_bytes(r.ptr, nmemb * size)
    /\ ret' = Call("adcalloc", nmemb, size, r.ptr, r.panicked)

adfree(ptr) ==
    LET r == Free(ptr) IN
    /\ HEAP_TOP' = r.top
    /\ SCRATCHPAD_ALLOCATED' = r.scratch
    /\ UNCHANGED <<HEAP_START, HEAP_PREVIOUS, HEAP_END>>
    /\ written' = {}
    /\ ret' = Call("adfree", ptr, 0, NoPtr, FALSE)

\* ---------------------------------------------- the allocator's callers

\* the byte size the last allocation call asked for
Requested(r) == IF r.op = "adcalloc" THEN r.a * r.b ELSE r.a

\* what a caller knows after an allocation call returned (or panicked)
NoteAlloc ==
    LET r == ret' IN
    IF r.panicked \/ Requested(r) < ScratchpadLen
    THEN UNCHANGED <<issued, lastReturned>>
    ELSE /\ issued' = Append(issued, [ptr |-> r.ptr, size |-> Requested(r)])
         /\ lastReturned' = r.ptr

\* what a caller knows after adfree: a free that moved the cursor ends the
\* sequence of blocks issued so far
NoteFree ==
    /\ issued' = IF HEAP_TOP' = HEAP_TOP THEN issued ELSE <<>>
    /\ UNCHANGED lastReturned

InitAdmalloc(start, len) ==
    /\ init_admalloc(start, len)
    /\ issued' = <<>>
    /\ UNCHANGED <<lastReturned, debug_assertions>>

Admalloc(size) ==
    /\ admalloc(size)
    /\ NoteAlloc
    /\ UNCHANGED debug_assertions

Adcalloc(nmemb, size) ==
    /\ adcalloc(nmemb, size)
    /\ NoteAlloc
    /\ UNCHANGED debug_assertions

Adfree(ptr) ==
    /\ adfree(ptr)
    /\ NoteFree
    /\ UNCHANGED debug_assertions

\* ------------------------------------------------------ the device handle

Handles == 1..MaxHandles
HandleAddrs == {HandleAddrA, HandleAddrB}
Statuses == {0, -ENODEV, -EINVAL}
Shapes == {"SET", "GET", "GET_INFALLIBLE", "GET_INFALLIBLE_VAL"}
\* what the driver asks the allocator for while it builds its state
DriverSizes == {ScratchpadLen \div 2, ScratchpadLen + 1}
\* the same, with the smallest request that the heap serves
SmallDriverSizes == {ScratchpadLen \div 2, ScratchpadLen}

\* a slot that holds no handle value
NoHandle ==
    [live |-> FALSE, addr |-> NULL, inner |-> NULL, is_init |-> FALSE,
     resetb |-> FALSE, heap_len |-> 0, init_called |-> FALSE,
     spi_extra |-> NULL, spi_ops |-> NULL,
     gpio_number |-> -1, gpio_extra |-> NULL, gpio_ops |-> NULL]

\* an entry of ffi_log: a call of the driver's entry point fn
DriverCall(fn) == [fn |-> fn]

Outcome(op, h, status, panicked, done) ==
    [op |-> op, h |-> h, status |-> status, panicked |-> panicked,
     done |-> done]

\* the concrete SPI, DELAY and RESETB types of the handle in slot h: the
\* monomorphised wrapper for a type is named by the slot
TypeOf(h) == h

\* new() without its check of the flag
NewRefused_Never == FALSE

\* TAKEN.swap(true, AcqRel) in new(): whether construction must panic
NewRefused == TAKEN

\* Ad9361::new(spi, delay, resetb, heap); the value it returns comes to
\* rest at HandleAddrA
New(h, resetb, heap_len) ==
    /\ pc = "idle"
    /\ ~handles[h].live
    /\ TAKEN' = TRUE
    /\ IF NewRefused
       THEN /\ UNCHANGED handles
            /\ res' = Outcome("new", h, NoStatus, TRUE, TRUE)
       ELSE /\ handles' = [handles EXCEPT ![h] =
                   [NoHandle EXCEPT !.live = TRUE, !.addr = HandleAddrA,
                                    !.resetb = resetb,
                                    !.heap_len = heap_len]]
            /\ res' = Outcome("new", h, NoStatus, FALSE, TRUE)
    /\ ffi_log' = <<>>
    /\ UNCHANGED <<allocVars, DELAY_MS, DELAY_US, DELAY_OBJECT, pc, cur,
                   phys, building>>

\* a free_inner() that looks at is_init alone
HoldsForeignState_InitOnly(h) == handles[h].is_init

\* free_inner(): whether there is a foreign state to release
HoldsForeignState(h) == handles[h].is_init /\ handles[h].inner # NULL

\* free_inner() forgetting to null `inner`
Released_KeepsInner(hd) == [hd EXCEPT !.is_init = FALSE]

\* free_inner(), once ad9361_remove has returned
Released(hd) == [hd EXCEPT !.inner = NULL, !.is_init = FALSE]

\* a gpio_get that hands out the parameter's address whatever its number
gpio_get_NeverNull(param, number) == [status |-> 0, desc |-> param]

\* gpio_get(desc, param): *desc is null for a negative number and the
\* address of the gpio_init_param otherwise; nothing is allocated
gpio_get(param, number) ==
    [status |-> 0, desc |-> IF number < 0 THEN NULL ELSE param]

\* gpio_get_optional(desc, param): the same code
gpio_get_optional(param, number) ==
    [status |-> 0, desc |-> IF number < 0 THEN NULL ELSE param]

\* init(), up to the attempt to free a previous initialisation: the
\* parameters are stored, the wrappers and objects bound, the allocator
\* pointed at the handle's heap
Bound(h) ==
    LET hd == handles[h] IN
    [hd EXCEPT !.init_called = TRUE,
               !.spi_ops = TypeOf(h),
               !.spi_extra = hd.addr + OffSpi,
               !.gpio_number = IF hd.resetb THEN 1 ELSE -1,
               !.gpio_ops = IF hd.resetb THEN TypeOf(h) ELSE NULL,
               !.gpio_extra = IF hd.resetb THEN StackAddr ELSE NULL]

InitCall(h) ==
    /\ pc = "idle"
    /\ handles[h].live
    /\ Len(phys) < MaxInits
    /\ handles' = [handles EXCEPT ![h] = Bound(h)]
    /\ DELAY_MS' = TypeOf(h)
    /\ DELAY_US' = TypeOf(h)
    /\ DELAY_OBJECT' = handles[h].addr + OffDelay
    /\ init_admalloc(HeapAddr, handles[h].heap_len)
    /\ UNCHANGED <<issued, lastReturned, debug_assertions>>
    /\ cur' = h
    /\ IF HoldsForeignState(h)
       THEN /\ pc' = "init_remove"
            /\ ffi_log' = <<DriverCall("ad9361_remove")>>
       ELSE /\ pc' = "init_driver"
            /\ ffi_log' = <<DriverCall("ad9361_init")>>
    /\ res' = Outcome("init", h, NoStatus, FALSE, FALSE)
    /\ UNCHANGED <<TAKEN, phys, building>>

\* ad9361_remove frees blocks of the state it is handed, in an order of
\* its own
DriverRemoveFree(ptr) ==
    /\ pc \in {"init_remove", "drop_remove"}
    /\ ptr \in phys[handles[cur].inner].blocks
    /\ adfree(ptr)
    /\ UNCHANGED <<issued, lastReturned, debug_assertions>>
    /\ phys' = [phys EXCEPT ![handles[cur].inner].blocks = @ \ {ptr}]
    /\ UNCHANGED <<TAKEN, handles, DELAY_MS, DELAY_US, DELAY_OBJECT, pc,
                   cur, building, ffi_log, res>>

\* what is left of a foreign state that ad9361_remove has torn down
Gone == [released |-> 0, blocks |-> {}, spi_desc |-> NULL, gpio_desc |-> NULL]

\* assert!(TAKEN.swap(false, AcqRel)) in drop(): whether the assertion holds
DropClears == TAKEN

\* ad9361_remove returns into free_inner; init() goes on to ad9361_init,
\* drop() to the TAKEN flag
RemoveReturn ==
    /\ pc \in {"init_remove", "drop_remove"}
    /\ phys' = [phys EXCEPT ![handles[cur].inner] =
                        [Gone EXCEPT !.released =
                            phys[handles[cur].inner].released + 1]]
    /\ IF pc = "init_remove"
       THEN /\ handles' = [handles EXCEPT ![cur] = Released(@)]
            /\ pc' = "init_driver"
            /\ ffi_log' = Append(ffi_log, DriverCall("ad9361_init"))
            /\ UNCHANGED <<TAKEN, cur, res>>
       ELSE /\ handles' = [handles EXCEPT ![cur] = NoHandle]
            /\ TAKEN' = FALSE
            /\ pc' = "idle"
            /\ cur' = 0
            /\ res' = Outcome("drop", cur, NoStatus, ~DropClears, TRUE)
            /\ UNCHANGED ffi_log
    /\ UNCHANGED <<allocVars, DELAY_MS, DELAY_US, DELAY_OBJECT, building>>

\* The driver is the allocator's caller here: what it holds is in `building`
\* and `phys`, and the view of the allocator's direct callers stays as it is.
DriverView == UNCHANGED <<issued, lastReturned, debug_assertions>>

\* inside ad9361_init: the driver allocates; a panic of the allocator
\* unwinds out of init() before is_init is set
DriverAlloc(size) ==
    /\ pc = "init_driver"
    /\ Cardinality(building) < MaxDriverBlocks
    /\ admalloc(size)
    /\ DriverView
    /\ IF ret'.panicked
       THEN /\ pc' = "idle"
            /\ cur' = 0
            /\ building' = {}
            /\ res' = Outcome("init", cur, NoStatus, TRUE, TRUE)
       ELSE /\ building' = building \cup {ret'.ptr}
            /\ UNCHANGED <<pc, cur, res>>
    /\ UNCHANGED <<TAKEN, handles, DELAY_MS, DELAY_US, DELAY_OBJECT, phys,
                   ffi_log>>

\* inside ad9361_init: the driver frees a block it allocated
DriverInitFree(ptr) ==
    /\ pc = "init_driver"
    /\ ptr \in building
    /\ adfree(ptr)
    /\ DriverView
    /\ building' = building \ {ptr}
    /\ UNCHANGED <<TAKEN, handles, DELAY_MS, DELAY_US, DELAY_OBJECT, pc,
                   cur, phys, ffi_log, res>>

\* ad9361_init returns: with status 0 it has stored its new state in the
\* handle's `inner`; with an error it has stored nothing.  init() then sets
\* is_init and maps the status.
InitReturn(status) ==
    /\ pc = "init_driver"
    /\ IF status = 0
       THEN /\ phys' = Append(phys,
                   [released |-> 0, blocks |-> building,
                    spi_desc |-> handles[cur].addr + OffParams,
                    gpio_desc |->
                        gpio_get(handles[cur].addr + OffParams,
                                 handles[cur].gpio_number).desc])
            /\ handles' = [handles EXCEPT ![cur].inner = Len(phys) + 1,
                                          ![cur].is_init = TRUE]
       ELSE /\ UNCHANGED phys
            /\ handles' = [handles EXCEPT ![cur].is_init = TRUE]
    /\ building' = {}
    /\ pc' = "idle"
    /\ cur' = 0
    /\ res' = Outcome("init", cur, status, FALSE, TRUE)
    /\ UNCHANGED <<allocVars, TAKEN, DELAY_MS, DELAY_US, DELAY_OBJECT,
                   ffi_log>>

\* an accessor without its assertion
AccessorAdmitted_Always(h) == TRUE

\* assert!(!self.inner.is_null(), ...) at the head of every accessor
AccessorAdmitted(h) == handles[h].inner # NULL

\* a typed accessor of one of the four shapes of ad9361_method!
Accessor(h, shape, status) ==
    /\ pc = "idle"
    /\ handles[h].live
    /\ IF AccessorAdmitted(h)
       THEN /\ ffi_log' = <<DriverCall(shape)>>
            /\ res' = Outcome(shape, h,
                              IF shape \in {"SET", "GET"} THEN status
                              ELSE NoStatus, FALSE, TRUE)
       ELSE /\ ffi_log' = <<>>
            /\ res' = Outcome(shape, h, NoStatus, TRUE, TRUE)
    /\ UNCHANGED <<allocVars, TAKEN, handles, DELAY_MS, DELAY_US,
                   DELAY_OBJECT, pc, cur, phys, building>>

\* drop(): free_inner(), then the TAKEN flag
Drop(h) ==
    /\ pc = "idle"
    /\ handles[h].live
    /\ IF HoldsForeignState(h)
       THEN /\ pc' = "drop_remove"
            /\ cur' = h
            /\ ffi_log' = <<DriverCall("ad9361_remove")>>
            /\ res' = Outcome("drop", h, NoStatus, FALSE, FALSE)
            /\ UNCHANGED <<TAKEN, handles>>
       ELSE /\ handles' = [handles EXCEPT ![h] = NoHandle]
            /\ TAKEN' = FALSE
            /\ ffi_log' = <<>>
            /\ res' = Outcome("drop", h, NoStatus, ~DropClears, TRUE)
            /\ UNCHANGED <<pc, cur>>
    /\ UNCHANGED <<allocVars, DELAY_MS, DELAY_US, DELAY_OBJECT, phys,
                   building>>

\* The handle is an ordinary value: new() returns it by value and nothing
\* wraps it in Pin or Box, so its owner may move it (`let b = a;`,
\* `Box::new(a)`, returning it) whenever no borrow of it is outstanding.
Move(h, addr) ==
    /\ pc = "idle"
    /\ handles[h].live
    /\ addr # handles[h].addr
    /\ handles' = [handles EXCEPT ![h].addr = addr]
    /\ ffi_log' = <<>>
    /\ res' = Outcome("move", h, NoStatus, FALSE, TRUE)
    /\ UNCHANGED <<allocVars, TAKEN, DELAY_MS, DELAY_US, DELAY_OBJECT, pc,
                   cur, phys, building>>

\* ------------------------------------------- callbacks from the driver

CallbackKinds == {"spi_write_and_read", "gpio_set_value", "mdelay", "udelay"}

\* a callback of the driver: the wrapper function the trampoline read, the
\* object address it read, the handle whose foreign call is running, and
\* whether the wrapper was invoked
Callback(fn, ops, obj, h, invoked) ==
    [fn |-> fn, ops |-> ops, obj |-> obj, h |-> h, invoked |-> invoked]

NoCallback == Callback("none", NULL, NULL, 0, FALSE)

\* the spi_desc the driver holds: spi_init() makes it the address of the
\* spi_init_param it is handed, which lies in the handle's `params`
SpiDescriptor(h) ==
    IF pc = "init_driver" THEN handles[h].addr + OffParams
    ELSE phys[handles[h].inner].spi_desc

\* the gpio_desc the driver holds: gpio_get() makes it null for a negative
\* number and the address of the gpio_init_param otherwise
GpioDescriptor(h) ==
    IF pc = "init_driver"
    THEN gpio_get_optional(handles[h].addr + OffParams,
                           handles[h].gpio_number).desc
    ELSE phys[handles[h].inner].gpio_desc

\* spi_write_and_read(descriptor, ..): platform_ops and extra are read
\* through the descriptor and the wrapper is called.  A descriptor that no
\* longer points into the handle reads the memory the handle left behind:
\* the parameters as init() bound them there, or whatever replaced them.
SpiTargets(h) ==
    LET desc == SpiDescriptor(h) IN
    IF desc = NULL THEN {}
    ELSE IF desc = handles[h].addr + OffParams
    THEN {Callback("spi_write_and_read", handles[h].spi_ops,
                   handles[h].spi_extra, h, TRUE)}
    ELSE {Callback("spi_write_and_read", TypeOf(h),
                   desc - OffParams + OffSpi, h, TRUE),
          Callback("spi_write_and_read", NULL, NULL, h, TRUE)}

\* gpio_set_value(descriptor, value): the same reads; a null `extra` is
\* "unconnected" and the wrapper is not called
GpioTargets(h) ==
    LET desc == GpioDescriptor(h) IN
    IF desc = NULL THEN {}
    ELSE IF desc = handles[h].addr + OffParams
    THEN {Callback("gpio_set_value", handles[h].gpio_ops,
                   handles[h].gpio_extra, h, handles[h].gpio_extra # NULL)}
    ELSE {Callback("gpio_set_value", TypeOf(h), StackAddr, h, TRUE),
          Callback("gpio_set_value", NULL, NULL, h, FALSE)}

\* mdelay(delay): the two assertions, then DELAY_MS called on DELAY_OBJECT
mdelay(h) ==
    Callback("mdelay", DELAY_MS, DELAY_OBJECT, h,
             DELAY_MS # NULL /\ DELAY_OBJECT # NULL)

\* udelay(delay): the same with DELAY_US
udelay(h) ==
    Callback("udelay", DELAY_US, DELAY_OBJECT, h,
             DELAY_US # NULL /\ DELAY_OBJECT # NULL)

Targets(h, kind) ==
    CASE kind = "spi_write_and_read" -> SpiTargets(h)
      [] kind = "gpio_set_value" -> GpioTargets(h)
      [] kind = "mdelay" -> {mdelay(h)}
      [] kind = "udelay" -> {udelay(h)}
      [] OTHER -> {}

\* a wrapper with the two levels exchanged
gpio_set_method_Exchanged(value, result) ==
    [method |-> IF value = 0 THEN "set_high" ELSE "set_low",
     status |-> IF result = "Ok" THEN 0 ELSE -1]

\* gpio_set_method::<GPIO>(outer, value): the pin method called on `outer`
\* and the status made of its Result
gpio_set_method(value, result) ==
    [method |-> IF value = 0 THEN "set_low" ELSE "set_high",
     status |-> IF result = "Ok" THEN 0 ELSE -1]

\* gpio_set_value(descriptor, value): platform_ops is called on `extra`
\* unless `extra` is null
gpio_set_value(extra, value, result) ==
    IF extra = NULL THEN [method |-> "none", status |-> 0]
    ELSE gpio_set_method(value, result)

U8Max == 255         \* u8::MAX

\* the levels the driver writes and what the pin answers
Levels == {0, 1, U8Max}
PinResults == {"Ok", "Err"}

\* the driver drives the reset line while ad9361_init or ad9361_remove
\* runs: the callback with the level it passed, the pin method that ran
\* and the status the driver got back
DriverGpioSetValue(value, result) ==
    /\ pc \in {"init_driver", "init_remove", "drop_remove"}
    /\ \E c \in GpioTargets(cur) :
          LET r == gpio_set_value(c.obj, value, result)
          IN  cb' = [fn |-> c.fn, ops |-> c.ops, obj |-> c.obj, h |-> c.h,
                     invoked |-> c.invoked, value |-> value,
                     result |-> result, method |-> r.method,
                     status |-> r.status]
    /\ UNCHANGED <<allocVars, handleVars, accessVars, codecVars>>

\* the driver calls back while ad9361_init or ad9361_remove runs
DriverCallback(kind) ==
    /\ pc \in {"init_driver", "init_remove", "drop_remove"}
    /\ \E c \in Targets(cur, kind) : cb' = c
    /\ UNCHANGED <<allocVars, handleVars, accessVars, codecVars>>

\* a step of the handle that is no callback
Quiet == cb' = NoCallback /\ UNCHANGED <<accessVars, codecVars>>

\* ------------------------------------------------- the typed conversions

\* the result of a conversion from a raw value: a domain value, or the panic
\* of an unreachable!() arm
Decoded(v) == [panicked |-> FALSE, value |-> v]
Unreachable == [panicked |-> TRUE, value |-> "unreachable!()"]

\* enum TxRfPortSelection and `a as u32`
TxRfPortSelection == [TXA |-> 0, TXB |-> 1]

\* a conversion with its two arms exchanged
TxRfPortSelection_from_Exchanged(a) ==
    CASE a = 0 -> Decoded("TXB")
      [] OTHER -> Decoded("TXA")

\* impl From<u32> for TxRfPortSelection
TxRfPortSelection_from(a) ==
    CASE a = 0 -> Decoded("TXA")
      [] OTHER -> Decoded("TXB")

\* enum RxRfPortSelection and `a as u32`
RxRfPortSelection ==
    [A_BALANCED |-> 0, B_BALANCED |-> 1, C_BALANCED |-> 2, A_N |-> 3,
     A_P |-> 4, B_N |-> 5, B_P |-> 6, C_N |-> 7, C_P |-> 8, TX_MON1 |-> 9,
     TX_MON2 |-> 10, TX_MON1_2 |-> 11]

\* impl From<u32> for RxRfPortSelection
RxRfPortSelection_from(a) ==
    CASE a = 1 -> Decoded("B_BALANCED")
      [] a = 2 -> Decoded("C_BALANCED")
      [] a = 3 -> Decoded("A_N")
      [] a = 4 -> Decoded("A_P")
      [] a = 5 -> Decoded("B_N")
      [] a = 6 -> Decoded("B_P")
      [] a = 7 -> Decoded("C_N")
      [] a = 8 -> Decoded("C_P")
      [] a = 9 -> Decoded("TX_MON1")
      [] a = 10 -> Decoded("TX_MON2")
      [] a = 11 -> Decoded("TX_MON1_2")
      [] OTHER -> Decoded("A_BALANCED")

\* enum LOPowerStatus and `p as u8`
LOPowerStatus == [On |-> 0, Off |-> 1]

\* a decoding that follows the enum's own values
LOPowerStatus_from_Natural(v) ==
    CASE v = 0 -> Decoded("On")
      [] v = 1 -> Decoded("Off")
      [] OTHER -> Unreachable

\* impl From<u8> for LOPowerStatus: the opposite sense to the enum values
LOPowerStatus_from(v) ==
    CASE v = 1 -> Decoded("On")
      [] v = 0 -> Decoded("Off")
      [] OTHER -> Unreachable

\* enum RfGainControlMode and `mode as u8`
RfGainControlMode ==
    [Manual |-> 0, FastAttackAgc |-> 1, SlowAttackAgc |-> 2, HybridAgc |-> 3]

\* impl From<u8> for RfGainControlMode
RfGainControlMode_from(v) ==
    CASE v = 0 -> Decoded("Manual")
      [] v = 1 -> Decoded("FastAttackAgc")
      [] v = 2 -> Decoded("SlowAttackAgc")
      [] v = 3 -> Decoded("HybridAgc")
      [] OTHER -> Unreachable

\* impl From<u8> for InBool, then From<InBool> for bool
InBool_from(v) ==
    CASE v = 0 -> Decoded(FALSE)
      [] OTHER -> Decoded(TRUE)

\* u8::from(bool), u32::from(bool)
FromBool(b) == IF b THEN 1 ELSE 0

\* an f32, as the quotient of two integers; the rounding of the f32
\* operations (a relative 2^-24 each) is not carried
Quotient(num, den) == [num |-> num, den |-> den]

\* a conversion that takes the raw value for hundredths of a degree
TemperatureX1000_into_Hundredths(t) == Decoded(Quotient(t, Millis \div 10))

\* From<i32> for TemperatureX1000, then From<TemperatureX1000> for f32:
\* (t.0 as f32) / 1000.
TemperatureX1000_into(t) == Decoded(Quotient(t, Millis))

\* --------------------------------------------------- the typed accessors

\* Result<T, i32>, or the panic that took the place of a return
Ok(v) == [kind |-> "Ok", v |-> v]
Err(e) == [kind |-> "Err", v |-> e]
Panic == [kind |-> "Panic", v |-> NoStatus]
Unit == "()"

\* the setters of the accessor table, by the Rust type of their argument
SetCodec ==
    [set_rx_rf_gain |-> "i32", set_rx_rf_bandwidth |-> "u32",
     set_rx_sampling_freq |-> "u32", set_rx_lo_freq |-> "u64",
     set_rx_gain_control_mode |-> "RfGainControlMode",
     set_rx_fir_en_dis |-> "bool", set_rx_rf_port_input |-> "RxRfPortSelection",
     set_tx_attenuation |-> "u32", set_tx_rf_bandwidth |-> "u32",
     set_tx_sampling_freq |-> "u32", set_tx_lo_freq |-> "u64",
     set_tx_fir_en_dis |-> "bool",
     set_tx_rf_port_output |-> "TxRfPortSelection",
     tx_lo_powerdown |-> "LOPowerStatus", tx_mute |-> "bool"]

\* the fallible getters of the accessor table, by the Rust type they return
GetCodec ==
    [get_rx_rf_gain |-> "i32", get_rx_rf_bandwidth |-> "u32",
     get_rx_sampling_freq |-> "u32", get_rx_lo_freq |-> "u64",
     get_rx_gain_control_mode |-> "RfGainControlMode",
     get_rx_fir_en_dis |-> "bool", get_rx_rf_port_input |-> "RxRfPortSelection",
     get_tx_attenuation |-> "u32", get_tx_rf_bandwidth |-> "u32",
     get_tx_sampling_freq |-> "u32", get_tx_lo_freq |-> "u64",
     get_tx_fir_en_dis |-> "bool",
     get_tx_rf_port_output |-> "TxRfPortSelection",
     get_tx_lo_power |-> "LOPowerStatus",
     get_temperature |-> "TemperatureX1000"]

\* GET_SET: the getter that set_<name> is generated with
Getter ==
    [set_rx_rf_gain |-> "get_rx_rf_gain",
     set_rx_rf_bandwidth |-> "get_rx_rf_bandwidth",
     set_rx_sampling_freq |-> "get_rx_sampling_freq",
     set_rx_lo_freq |-> "get_rx_lo_freq",
     set_rx_gain_control_mode |-> "get_rx_gain_control_mode",
     set_rx_fir_en_dis |-> "get_rx_fir_en_dis",
     set_rx_rf_port_input |-> "get_rx_rf_port_input",
     set_tx_attenuation |-> "get_tx_attenuation",
     set_tx_rf_bandwidth |-> "get_tx_rf_bandwidth",
     set_tx_sampling_freq |-> "get_tx_sampling_freq",
     set_tx_lo_freq |-> "get_tx_lo_freq",
     set_tx_fir_en_dis |-> "get_tx_fir_en_dis",
     set_tx_rf_port_output |-> "get_tx_rf_port_output"]

\* the accessors that take `channel: u8` before the value
Channelled ==
    {"set_rx_rf_gain", "get_rx_rf_gain", "set_rx_gain_control_mode",
     "get_rx_gain_control_mode", "set_tx_attenuation", "get_tx_attenuation"}
Channels(name) == IF name \in Channelled THEN 0..MaxChannel ELSE {0}

I32Max == 2147483647
\* raw temperatures: the ends of i32, the signs, the example of the tests
TemperatureSamples == {-I32Max - 1, -2600, -1, 0, 999, 2600, I32Max}

\* the values of a Rust type that the model draws arguments from
Domain(codec) ==
    CASE codec = "i32" -> -1..MaxInt
      [] codec \in {"u32", "u64"} -> 0..MaxInt
      [] codec = "bool" -> BOOLEAN
      [] codec = "RfGainControlMode" -> DOMAIN RfGainControlMode
      [] codec = "RxRfPortSelection" -> DOMAIN RxRfPortSelection
      [] codec = "TxRfPortSelection" -> DOMAIN TxRfPortSelection
      [] codec = "LOPowerStatus" -> DOMAIN LOPowerStatus

\* `let arg: $rust = arg.into();` in the SET arm
Into(codec, v) ==
    CASE codec \in {"i32", "u32", "u64"} -> v
      [] codec = "bool" -> FromBool(v)
      [] codec = "RfGainControlMode" -> RfGainControlMode[v]
      [] codec = "RxRfPortSelection" -> RxRfPortSelection[v]
      [] codec = "TxRfPortSelection" -> TxRfPortSelection[v]
      [] codec = "LOPowerStatus" -> LOPowerStatus[v]

\* `$intermediate::from(result)` and `result.into()` in the GET arm
From(codec, raw) ==
    CASE codec \in {"i32", "u32", "u64"} -> Decoded(raw)
      [] codec = "bool" -> InBool_from(raw)
      [] codec = "RfGainControlMode" -> RfGainControlMode_from(raw)
      [] codec = "RxRfPortSelection" -> RxRfPortSelection_from(raw)
      [] codec = "TxRfPortSelection" -> TxRfPortSelection_from(raw)
      [] codec = "LOPowerStatus" -> LOPowerStatus_from(raw)
      [] codec = "TemperatureX1000" -> TemperatureX1000_into(raw)

\* the raw values the driver's out-parameter can carry, by the type: the
\* driver is free within the C type, except that it reports the TX LO power
\* as a negated flag
RawDomain(codec) ==
    CASE codec = "i32" -> -1..MaxInt
      [] codec \in {"u32", "u64"} -> 0..MaxInt
      [] codec = "LOPowerStatus" -> {0, 1}
      [] codec = "TemperatureX1000" -> TemperatureSamples
      [] OTHER -> 0..MaxRaw

\* the driver holds nothing a getter could read back
NoStore == [getter |-> "none"]

\* the driver as a store: what it keeps of a setter's raw argument.
\* ad9361_tx_lo_powerdown(pd) is read back by ad9361_get_tx_lo_power as !pd.
DriverKeeps(name, channel, raw) ==
    CASE name \in DOMAIN Getter ->
             [getter |-> Getter[name], channel |-> channel, raw |-> raw]
      [] name = "tx_lo_powerdown" ->
             [getter |-> "get_tx_lo_power", channel |-> channel,
              raw |-> IF raw = 0 THEN 1 ELSE 0]
      [] OTHER -> NoStore

\* what the driver may write to a getter's out-parameter
DriverReports(name, channel) ==
    IF stored.getter = name /\ stored.channel = channel
    THEN {stored.raw}
    ELSE RawDomain(GetCodec[name])

\* no call of the typed API has returned
NoReturn == [name |-> "none"]

\* the record of a call: whether the foreign function was called, the
\* status and the raw value it gave, the register write it was handed; a
\* setter's record keeps its argument, a getter's what the store held
Returned(name, h, channel, called, status, raw, result, wrote) ==
    [name |-> name, h |-> h, channel |-> channel, called |-> called,
     status |-> status, raw |-> raw, result |-> result, wrote |-> wrote,
     arg |-> Unit, answered |-> NoStore]

\* the tail of init()
InitResult(status) == IF status = 0 THEN Ok(Unit) ELSE Err(status)

\* the tail of the SET arm
SetResult(status) == IF status = 0 THEN Ok(Unit) ELSE Err(status)

\* the tail of the GET arm: the conversion runs only for status 0, and
\* its panic unwinds out of the getter
GetResult(status, codec, raw) ==
    IF status = 0
    THEN IF From(codec, raw).panicked THEN Panic
         ELSE Ok(From(codec, raw).value)
    ELSE Err(status)

\* a generated setter: set_<name>, tx_lo_powerdown, tx_mute; the status is
\* the driver's
Set(h, name, channel, v) ==
    /\ IF AccessorAdmitted(h)
       THEN \E status \in Statuses :
               /\ Accessor(h, "SET", status)
               /\ returned' = [Returned(name, h, channel, TRUE, status,
                                        Into(SetCodec[name], v),
                                        SetResult(status), <<>>)
                                  EXCEPT !.arg = v]
               /\ stored' = IF status = 0
                            THEN DriverKeeps(name, channel,
                                             Into(SetCodec[name], v))
                            ELSE NoStore
       ELSE /\ Accessor(h, "SET", NoStatus)
            /\ returned' = Returned(name, h, channel, FALSE, NoStatus, 0,
                                    Panic, <<>>)
            /\ stored' = NoStore
    /\ cb' = NoCallback
    /\ UNCHANGED codecVars

\* a generated fallible getter; the status and the raw value are the
\* driver's, and with a non-zero status `result` is still its Default.
\* The store answers the call that follows the setter; past that call the
\* driver is free again.
Get(h, name, channel) ==
    /\ IF AccessorAdmitted(h)
       THEN \/ \E raw \in DriverReports(name, channel) :
                  /\ Accessor(h, "GET", 0)
                  /\ returned' =
                         [Returned(name, h, channel, TRUE, 0, raw,
                                   GetResult(0, GetCodec[name], raw), <<>>)
                            EXCEPT !.answered =
                               IF stored.getter = name
                                  /\ stored.channel = channel
                               THEN stored ELSE NoStore]
            \/ \E status \in Statuses \ {0} :
                  /\ Accessor(h, "GET", status)
                  /\ returned' = Returned(name, h, channel, TRUE, status, 0,
                                          GetResult(status, GetCodec[name], 0),
                                          <<>>)
       ELSE /\ Accessor(h, "GET", NoStatus)
            /\ returned' = Returned(name, h, channel, FALSE, NoStatus, 0,
                                    Panic, <<>>)
    /\ stored' = NoStore
    /\ cb' = NoCallback
    /\ UNCHANGED codecVars

RECURSIVE BitOr(_, _)
\* a | b on unsigned integers
BitOr(a, b) ==
    IF a = 0 THEN b
    ELSE IF b = 0 THEN a
    ELSE (IF a % 2 = 1 \/ b % 2 = 1 THEN 1 ELSE 0)
         + 2 * BitOr(a \div 2, b \div 2)

RECURSIVE BitAnd(_, _)
\* a & b on unsigned integers
BitAnd(a, b) ==
    IF a = 0 \/ b = 0 THEN 0
    ELSE (IF a % 2 = 1 /\ b % 2 = 1 THEN 1 ELSE 0)
         + 2 * BitAnd(a \div 2, b \div 2)

\* a << n and a >> n, n below the width and no bit shifted out
ShiftLeft(a, n) == a * 2^n
ShiftRight(a, n) == a \div 2^n

DelayLimit == 16     \* assert!(clock_delay < 16); assert!(data_delay < 16)
LvdsBiasMin == 75    \* assert!(lvds_bias_m_v >= 75)
LvdsBiasMax == 450   \* assert!(lvds_bias_m_v <= 450)

\* set_intf_delay without its two range assertions
IntfDelayAdmitted_NoRange(h, clock_delay, data_delay) ==
    handles[h].inner # NULL

\* the three assertions at the head of set_intf_delay
IntfDelayAdmitted(h, clock_delay, data_delay) ==
    /\ clock_delay < DelayLimit
    /\ data_delay < DelayLimit
    /\ handles[h].inner # NULL

\* the tail of set_intf_delay
IntfDelayResult(status) == IF status = 0 THEN Ok(Unit) ELSE Err(status)

EnsmState_Alert == 5    \* EnsmState::Alert as u8
EnsmState_Fdd == 10     \* EnsmState::Fdd as u8

\* bindings::ad9361_ensm_force_state(inner_ptr, state) and what it returned
ad9361_ensm_force_state(state, status) ==
    [fn |-> "ad9361_ensm_force_state", state |-> state, status |-> status]

\* bindings::ad9361_spi_write((*inner_ptr).spi, reg, val) and what it
\* returned
ad9361_spi_write(reg, val, status) ==
    [fn |-> "ad9361_spi_write", reg |-> reg, val |-> val, status |-> status]

\* a set_intf_delay that returns at a failed write, the state machine left
\* in Alert
IntfDelayCalls_EarlyReturn(tx, clock, data, clock_changed, status, forced) ==
    LET write == ad9361_spi_write(IF tx THEN 7 ELSE 6,
                                  BitOr(ShiftLeft(clock, 4), data), status)
    IN  IF clock_changed /\ status = 0
        THEN <<ad9361_ensm_force_state(EnsmState_Alert, forced), write,
               ad9361_ensm_force_state(EnsmState_Fdd, forced)>>
        ELSE IF clock_changed
        THEN <<ad9361_ensm_force_state(EnsmState_Alert, forced), write>>
        ELSE <<write>>

\* the unsafe block of set_intf_delay: the calls it makes on the driver,
\* in order; `status` is what the write returns and `forced` what the
\* forcing of the state machine returns
IntfDelayCalls(tx, clock, data, clock_changed, status, forced) ==
    LET write == ad9361_spi_write(IF tx THEN 7 ELSE 6,
                                  BitOr(ShiftLeft(clock, 4), data), status)
    IN  IF clock_changed
        THEN <<ad9361_ensm_force_state(EnsmState_Alert, forced), write,
               ad9361_ensm_force_state(EnsmState_Fdd, forced)>>
        ELSE <<write>>

\* set_intf_delay(tx, clock_delay, data_delay, clock_changed): the status
\* is that of ad9361_spi_write; those of ad9361_ensm_force_state are dropped
set_intf_delay(h, tx, clock_delay, data_delay, clock_changed) ==
    /\ pc = "idle"
    /\ handles[h].live
    /\ IF IntfDelayAdmitted(h, clock_delay, data_delay)
       THEN \E status \in Statuses,
               forced \in IF clock_changed THEN {0, -EINVAL} ELSE {0} :
               /\ ffi_log' = IntfDelayCalls(tx, clock_delay, data_delay,
                                            clock_changed, status, forced)
               /\ res' = Outcome("set_intf_delay", h, status, FALSE, TRUE)
               /\ returned' =
                      [Returned("set_intf_delay", h, 0, TRUE, status, 0,
                                IntfDelayResult(status),
                                <<IF tx THEN 7 ELSE 6,
                                  BitOr(ShiftLeft(clock_delay, 4),
                                        data_delay)>>)
                         EXCEPT !.arg = [clock_delay |-> clock_delay,
                                         data_delay |-> data_delay,
                                         tx |-> tx,
                                         clock_changed |-> clock_changed]]
               /\ stored' = NoStore
       ELSE /\ ffi_log' = <<>>
            /\ res' = Outcome("set_intf_delay", h, NoStatus, TRUE, TRUE)
            /\ returned' =
                   [Returned("set_intf_delay", h, 0, FALSE, NoStatus, 0,
                             Panic, <<>>)
                      EXCEPT !.arg = [clock_delay |-> clock_delay,
                                      data_delay |-> data_delay]]
            /\ UNCHANGED stored
    /\ cb' = NoCallback
    /\ UNCHANGED codecVars
    /\ UNCHANGED <<allocVars, TAKEN, handles, DELAY_MS, DELAY_US,
                   DELAY_OBJECT, pc, cur, phys, building>>

\* the three assertions of set_lvds_bias_control, all ahead of the write
LvdsBiasAdmitted(h, lvds_bias_m_v) ==
    /\ lvds_bias_m_v <= LvdsBiasMax
    /\ lvds_bias_m_v >= LvdsBiasMin
    /\ handles[h].inner # NULL

\* the tail of set_lvds_bias_control
LvdsBiasResult(status) == IF status = 0 THEN Ok(Unit) ELSE Err(status)

\* set_lvds_bias_control(rx_on_chip_term, lvds_tx_lo_vcm, lvds_bias_m_v)
set_lvds_bias_control(h, rx_on_chip_term, lvds_tx_lo_vcm, lvds_bias_m_v) ==
    /\ pc = "idle"
    /\ handles[h].live
    /\ IF LvdsBiasAdmitted(h, lvds_bias_m_v)
       THEN \E status \in Statuses :
               /\ ffi_log' = <<DriverCall("ad9361_spi_write")>>
               /\ res' = Outcome("set_lvds_bias_control", h, status, FALSE,
                                 TRUE)
               /\ returned' =
                      [Returned("set_lvds_bias_control", h, 0, TRUE, status,
                                0, LvdsBiasResult(status),
                                <<60,
                                  BitOr(BitOr(IF rx_on_chip_term THEN 32
                                              ELSE 0,
                                              IF lvds_tx_lo_vcm THEN 8 ELSE 0),
                                        (lvds_bias_m_v - LvdsBiasMin)
                                            \div LvdsBiasMin)>>)
                         EXCEPT !.arg = [lvds_bias_m_v |-> lvds_bias_m_v]]
               /\ stored' = NoStore
       ELSE /\ ffi_log' = <<>>
            /\ res' = Outcome("set_lvds_bias_control", h, NoStatus, TRUE,
                              TRUE)
            /\ returned' =
                   [Returned("set_lvds_bias_control", h, 0, FALSE, NoStatus,
                             0, Panic, <<>>)
                      EXCEPT !.arg = [lvds_bias_m_v |-> lvds_bias_m_v]]
            /\ UNCHANGED stored
    /\ cb' = NoCallback
    /\ UNCHANGED codecVars
    /\ UNCHANGED <<allocVars, TAKEN, handles, DELAY_MS, DELAY_US,
                   DELAY_OBJECT, pc, cur, phys, building>>

\* the arguments the two register setters are called with: about the limits
DelaySamples == {0, DelayLimit - 1, DelayLimit - 1 + MaxExcess}
LvdsBiasSamples ==
    {LvdsBiasMin - MaxExcess, LvdsBiasMin, LvdsBiasMax, LvdsBiasMax + MaxExcess}

\* a step of the handle's life, seen from the typed API: the driver's
\* store goes with the foreign state, and init() returns its Result
Lifecycle ==
    /\ cb' = NoCallback
    /\ UNCHANGED codecVars
    /\ stored' = NoStore
    /\ returned' = IF res'.op = "init" /\ res'.done /\ ~res'.panicked
                   THEN Returned("init", res'.h, 0, TRUE, res'.status, 0,
                                 InitResult(res'.status), <<>>)
                   ELSE NoReturn

\* ------------------------------------------------ the transaction wrapper

\* the second and third byte of the frames decoded
ByteSamples == {0, 55, U8Max}

\* Ad9361Transaction(&[u8]) over a three-byte frame; t[1] is self.0[0]
\* register(): self.0[1] as u16 + ((self.0[0] as u16 & 3) << 8)
register(t) == (t[2] + ShiftLeft(BitAnd(t[1], 3), 8)) % 2^16

\* is_write() as C would read it: self.0[0] & (0x80 > 0)
is_write_CPrecedence(t) == BitAnd(t[1], 1) > 0

\* is_write(): self.0[0] & 0x80 > 0, the & binding tighter than the >
is_write(t) == BitAnd(t[1], 128) > 0

\* value(): self.0[2]
value(t) == t[3]

\* length(): ((self.0[0] >> 4) & 7) as usize + 1
length(t) == BitAnd(ShiftRight(t[1], 4), 7) + 1

NoTransaction == [bytes |-> <<>>]

\* a frame is wrapped and its four accessors are called
Decode(b0, b1, b2) ==
    /\ txn.bytes = <<>>
    /\ txn' = [bytes |-> <<b0, b1, b2>>,
               register |-> register(<<b0, b1, b2>>),
               is_write |-> is_write(<<b0, b1, b2>>),
               value |-> value(<<b0, b1, b2>>),
               length |-> length(<<b0, b1, b2>>)]
    /\ UNCHANGED <<allocVars, handleVars, cb, accessVars, threads,
                   fir, fir_ret,
                   gt, gt_ret>>

\* the wrapper goes out of scope and gives the frame back
DropTransaction ==
    /\ txn.bytes # <<>>
    /\ txn' = NoTransaction
    /\ UNCHANGED <<allocVars, handleVars, cb, accessVars, threads,
                   fir, fir_ret,
                   gt, gt_ret>>

\* ------------------------------------------------------ the FIR builders

CoefCapacity == 128  \* tx_coef: [i16; 128], rx_coef: [i16; 128]
DefaultSize == 64    \* tx_coef_size: 64, rx_coef_size: 64

\* the coefficients of Default for Ad9361TxFir and Ad9361RxFir that are
\* not zero
DefaultCoef ==
 <<
    -4, -6, -37, 35, 186, 86, -284, -315, 107, 219, -4, 271, 558, -307,
    -1182, -356, 658, 157, 207, 1648, 790, -2525, -2553, 748, 865, -476,
    3737, 6560, -3583, -14731, -5278, 14819, 14819, -5278, -14731, -3583,
    6560, 3737, -476, 865, 748, -2553, -2525, 790, 1648, 207, 157, 658,
    -356, -1182, -307, 558, 271, -4, 219, 107, -315, -284, 86, 186, 35, -37,
    -6, -4
 >>

\* Ad9361TxFir::default(), Ad9361RxFir::default(): the coefficient array
\* and its size field
Default(kind) ==
    [kind |-> kind,
     coef |-> [i \in 1..CoefCapacity |->
                  IF i <= Len(DefaultCoef) THEN DefaultCoef[i] ELSE 0],
     size |-> DefaultSize]

\* no builder chain has been started
NoFir == [kind |-> "none"]

NoFirCall == [op |-> "none"]

\* the slices handed to the builders: length len, rising from first
Slice(len, first) == [i \in 1..len |-> first + i - 1]
SliceLengths ==
    {0, 1, MaxShort, CoefCapacity - 1, CoefCapacity, CoefCapacity + MaxExcess}
SliceFirsts == {85, -32768}

\* a getter that hands out the whole array
get_coef_WholeArray(f) == f.coef

\* get_tx_coef(), get_rx_coef(): &self.0.$property[..len]
get_coef(f) == SubSeq(f.coef, 1, f.size)

\* Ad9361TxFir::default() or Ad9361RxFir::default() starts a builder chain
FirDefault(kind) ==
    /\ fir' = Default(kind)
    /\ fir_ret' = [op |-> "default"]
    /\ UNCHANGED <<allocVars, handleVars, cb, accessVars, threads,
                   txn, gt, gt_ret>>

\* tx_coef(coefficients), rx_coef(coefficients): the builder takes the
\* slice, or panics at its assertion and is dropped with the chain
SetCoef(coefficients) ==
    /\ fir.kind # "none"
    /\ IF Len(coefficients) <= CoefCapacity
       THEN /\ fir' = [fir EXCEPT
                         !.size = Len(coefficients) % (U8Max + 1),
                         !.coef = [i \in 1..CoefCapacity |->
                                      IF i <= Len(coefficients)
                                      THEN coefficients[i] ELSE fir.coef[i]]]
            /\ fir_ret' = [op |-> "set_coef", arg |-> coefficients,
                           panicked |-> FALSE, slice |-> <<>>]
       ELSE /\ UNCHANGED fir
            /\ fir_ret' = [op |-> "set_coef", arg |-> coefficients,
                           panicked |-> TRUE, slice |-> <<>>]
    /\ UNCHANGED <<allocVars, handleVars, cb, accessVars, threads,
                   txn, gt, gt_ret>>

\* get_tx_coef(), get_rx_coef() on the configuration the chain gave
GetCoef ==
    /\ fir.kind # "none"
    /\ fir_ret' = [op |-> "get_coef", arg |-> <<>>, panicked |-> FALSE,
                   slice |-> get_coef(fir)]
    /\ UNCHANGED <<allocVars, handleVars, cb, accessVars, threads,
                   txn, fir,
                   gt, gt_ret>>

\* --------------------------------------------------------- the gain table

TableCapacity == 90      \* table: [[u8; 3]; 90], abs_gain_tbl: [i8; 90]
InfoCapacity == 6        \* info: [bindings::gain_table_info; 6]
SizeFullTable == 77      \* max_index: 77, // SIZE_FULL_TABLE
SizeSplitTable == 41     \* max_index: 41, // SIZE_SPLIT_TABLE
SplitInfoIndex == 4      \* index: 4, // active info at index 4
LowBandMHz == 1300       \* frequency < 1_300_000_000, in MHz
MidBandMHz == 4000       \* frequency < 4_000_000_000, in MHz

\* new_from_recommended: let table, the full tables; one row of 90 per band
table_Full ==
 <<
  <<
    <<0, 0, 32>>, <<0, 0, 0>>, <<0, 0, 0>>, <<0, 1, 0>>, <<0, 2, 0>>,
    <<0, 3, 0>>, <<0, 4, 0>>, <<0, 5, 0>>, <<1, 3, 32>>, <<1, 4, 0>>,
    <<1, 5, 0>>, <<1, 6, 0>>, <<1, 7, 0>>, <<1, 8, 0>>, <<1, 9, 0>>,
    <<1, 10, 0>>, <<1, 11, 0>>, <<1, 12, 0>>, <<1, 13, 0>>, <<1, 14,
    0>>, <<2, 9, 32>>, <<2, 10, 0>>, <<2, 11, 0>>, <<2, 12, 0>>, <<2,
    13, 0>>, <<2, 14, 0>>, <<2, 15, 0>>, <<2, 16, 0>>, <<2, 43, 32>>,
    <<2, 44, 0>>, <<4, 40, 32>>, <<4, 41, 0>>, <<4, 42, 0>>, <<4, 43,
    0>>, <<36, 32, 32>>, <<36, 33, 0>>, <<68, 32, 32>>, <<68, 33, 0>>,
    <<68, 34, 0>>, <<68, 35, 0>>, <<68, 36, 0>>, <<68, 37, 0>>, <<68,
    38, 0>>, <<68, 39, 0>>, <<68, 40, 0>>, <<68, 41, 0>>, <<68, 42, 0>>,
    <<68, 43, 0>>, <<68, 44, 0>>, <<68, 45, 0>>, <<68, 46, 0>>, <<68,
    47, 0>>, <<68, 48, 0>>, <<68, 49, 0>>, <<68, 50, 0>>, <<100, 46,
    32>>, <<100, 47, 0>>, <<100, 48, 0>>, <<100, 49, 0>>, <<100, 50,
    0>>, <<100, 51, 0>>, <<100, 52, 0>>, <<100, 53, 0>>, <<100, 54, 0>>,
    <<100, 55, 0>>, <<100, 56, 0>>, <<101, 56, 32>>, <<102, 56, 32>>,
    <<103, 56, 32>>, <<104, 56, 32>>, <<105, 56, 32>>, <<106, 56, 32>>,
    <<107, 56, 32>>, <<108, 56, 32>>, <<109, 56, 32>>, <<110, 56, 32>>,
    <<111, 56, 32>>, <<0, 0, 0>>, <<0, 0, 0>>, <<0, 0, 0>>, <<0, 0, 0>>,
    <<0, 0, 0>>, <<0, 0, 0>>, <<0, 0, 0>>, <<0, 0, 0>>, <<0, 0, 0>>,
    <<0, 0, 0>>, <<0, 0, 0>>, <<0, 0, 0>>, <<0, 0, 0>>
  >>,
  <<
    <<0, 0, 32>>, <<0, 0, 0>>, <<0, 0, 0>>, <<0, 1, 0>>, <<0, 2, 0>>,
    <<0, 3, 0>>, <<0, 4, 0>>, <<0, 5, 0>>, <<1, 3, 32>>, <<1, 4, 0>>,
    <<1, 5, 0>>, <<1, 6, 0>>, <<1, 7, 0>>, <<1, 8, 0>>, <<1, 9, 0>>,
    <<1, 10, 0>>, <<1, 11, 0>>, <<1, 12, 0>>, <<1, 13, 0>>, <<1, 14,
    0>>, <<2, 9, 32>>, <<2, 10, 0>>, <<2, 11, 0>>, <<2, 12, 0>>, <<2,
    13, 0>>, <<2, 14, 0>>, <<2, 15, 0>>, <<2, 16, 0>>, <<2, 43, 32>>,
    <<2, 44, 0>>, <<4, 39, 32>>, <<4, 40, 0>>, <<4, 41, 0>>, <<4, 42,
    0>>, <<4, 43, 0>>, <<36, 33, 32>>, <<36, 34, 0>>, <<68, 32, 32>>,
    <<68, 33, 0>>, <<68, 34, 0>>, <<68, 35, 0>>, <<68, 36, 0>>, <<68,
    37, 0>>, <<68, 38, 0>>, <<68, 39, 0>>, <<68, 40, 0>>, <<68, 41, 0>>,
    <<68, 42, 0>>, <<68, 43, 0>>, <<68, 44, 0>>, <<68, 45, 0>>, <<68,
    46, 0>>, <<68, 47, 0>>, <<68, 48, 0>>, <<68, 49, 0>>, <<100, 46,
    32>>, <<100, 47, 0>>, <<100, 48, 0>>, <<100, 49, 0>>, <<100, 50,
    0>>, <<100, 51, 0>>, <<100, 52, 0>>, <<100, 53, 0>>, <<100, 54, 0>>,
    <<100, 55, 0>>, <<100, 56, 0>>, <<101, 56, 32>>, <<102, 56, 32>>,
    <<103, 56, 32>>, <<104, 56, 32>>, <<105, 56, 32>>, <<106, 56, 32>>,
    <<107, 56, 32>>, <<108, 56, 32>>, <<109, 56, 32>>, <<110, 56, 32>>,
    <<111, 56, 32>>, <<0, 0, 0>>, <<0, 0, 0>>, <<0, 0, 0>>, <<0, 0, 0>>,
    <<0, 0, 0>>, <<0, 0, 0>>, <<0, 0, 0>>, <<0, 0, 0>>, <<0, 0, 0>>,
    <<0, 0, 0>>, <<0, 0, 0>>, <<0, 0, 0>>, <<0, 0, 0>>
  >>,
  <<
    <<0, 0, 32>>, <<0, 0, 0>>, <<0, 0, 0>>, <<0, 0, 0>>, <<0, 0, 0>>,
    <<0, 1, 0>>, <<0, 2, 0>>, <<0, 3, 0>>, <<1, 1, 32>>, <<1, 2, 0>>,
    <<1, 3, 0>>, <<1, 4, 32>>, <<1, 5, 0>>, <<1, 6, 0>>, <<1, 7, 0>>,
    <<1, 8, 0>>, <<1, 9, 0>>, <<1, 10, 0>>, <<1, 11, 0>>, <<1, 12, 0>>,
    <<2, 8, 32>>, <<2, 9, 0>>, <<2, 10, 0>>, <<2, 11, 32>>, <<2, 12,
    0>>, <<2, 13, 0>>, <<2, 14, 0>>, <<2, 15, 0>>, <<2, 42, 32>>, <<2,
    43, 0>>, <<4, 39, 32>>, <<4, 40, 0>>, <<4, 41, 0>>, <<4, 42, 0>>,
    <<4, 43, 0>>, <<4, 44, 0>>, <<4, 45, 0>>, <<36, 32, 32>>, <<36, 33,
    0>>, <<36, 34, 0>>, <<68, 32, 32>>, <<68, 33, 0>>, <<68, 34, 0>>,
    <<68, 35, 0>>, <<68, 36, 0>>, <<68, 37, 0>>, <<68, 38, 0>>, <<68,
    39, 0>>, <<68, 40, 0>>, <<68, 41, 0>>, <<68, 42, 0>>, <<68, 43, 0>>,
    <<68, 44, 0>>, <<68, 45, 0>>, <<68, 46, 0>>, <<100, 46, 32>>, <<100,
    47, 0>>, <<100, 48, 0>>, <<100, 49, 0>>, <<100, 50, 0>>, <<100, 51,
    0>>, <<100, 52, 0>>, <<100, 53, 0>>, <<100, 54, 0>>, <<100, 55, 0>>,
    <<100, 56, 0>>, <<101, 56, 32>>, <<102, 56, 32>>, <<103, 56, 32>>,
    <<104, 56, 32>>, <<105, 56, 32>>, <<106, 56, 32>>, <<107, 56, 32>>,
    <<108, 56, 32>>, <<109, 56, 32>>, <<110, 56, 32>>, <<111, 56, 32>>,
    <<0, 0, 0>>, <<0, 0, 0>>, <<0, 0, 0>>, <<0, 0, 0>>, <<0, 0, 0>>,
    <<0, 0, 0>>, <<0, 0, 0>>, <<0, 0, 0>>, <<0, 0, 0>>, <<0, 0, 0>>,
    <<0, 0, 0>>, <<0, 0, 0>>, <<0, 0, 0>>
  >>
 >>

\* new_from_recommended: let abs_gain_tbl, the full tables
abs_gain_tbl_Full ==
 <<
  <<
    -1, -1, -1, 0, 1, 2, 3, 4, 5, 6, 7, 8, 9, 10, 11, 12, 13, 14, 15,
    16, 17, 18, 19, 20, 21, 22, 23, 24, 25, 26, 27, 28, 29, 30, 31, 32,
    33, 34, 35, 36, 37, 38, 39, 40, 41, 42, 43, 44, 45, 46, 47, 48, 49,
    50, 51, 52, 53, 54, 55, 56, 57, 58, 59, 60, 61, 62, 63, 64, 65, 66,
    67, 68, 69, 70, 71, 72, 73, 0, 0, 0, 0, 0, 0, 0, 0, 0, 0, 0, 0, 0
  >>,
  <<
    -3, -3, -3, -2, -1, 0, 1, 2, 3, 4, 5, 6, 7, 8, 9, 10, 11, 12, 13,
    14, 15, 16, 17, 18, 19, 20, 21, 22, 23, 24, 25, 26, 27, 28, 29, 30,
    31, 32, 33, 34, 35, 36, 37, 38, 39, 40, 41, 42, 43, 44, 45, 46, 47,
    48, 49, 50, 51, 52, 53, 54, 55, 56, 57, 58, 59, 60, 61, 62, 63, 64,
    65, 66, 67, 68, 69, 70, 71, 0, 0, 0, 0, 0, 0, 0, 0, 0, 0, 0, 0, 0
  >>,
  <<
    -10, -10, -10, -10, -10, -9, -8, -7, -6, -5, -4, -3, -2, -1, 0, 1,
    2, 3, 4, 5, 6, 7, 8, 9, 10, 11, 12, 13, 14, 15, 16, 17, 18, 19, 20,
    21, 22, 23, 24, 25, 26, 27, 28, 29, 30, 31, 32, 33, 34, 35, 36, 37,
    38, 39, 40, 41, 42, 43, 44, 45, 46, 47, 48, 49, 50, 51, 52, 53, 54,
    55, 56, 57, 58, 59, 60, 61, 62, 0, 0, 0, 0, 0, 0, 0, 0, 0, 0, 0, 0,
    0
  >>
 >>

\* new_from_recommended: let table, the split tables; one row of 90 per band
table_Split ==
 <<
  <<
    <<0, 24, 32>>, <<0, 24, 0>>, <<0, 24, 0>>, <<0, 24, 0>>, <<0, 24,
    0>>, <<0, 24, 0>>, <<0, 24, 32>>, <<1, 24, 32>>, <<2, 24, 32>>, <<4,
    24, 32>>, <<4, 56, 32>>, <<5, 56, 32>>, <<6, 56, 32>>, <<7, 56,
    32>>, <<8, 56, 32>>, <<9, 56, 32>>, <<10, 56, 32>>, <<11, 56, 32>>,
    <<12, 56, 32>>, <<13, 56, 32>>, <<14, 56, 32>>, <<15, 56, 32>>,
    <<36, 56, 32>>, <<37, 56, 32>>, <<68, 56, 32>>, <<69, 56, 32>>,
    <<70, 56, 32>>, <<71, 56, 32>>, <<72, 56, 32>>, <<100, 56, 32>>,
    <<101, 56, 32>>, <<102, 56, 32>>, <<103, 56, 32>>, <<104, 56, 32>>,
    <<105, 56, 32>>, <<106, 56, 32>>, <<107, 56, 32>>, <<108, 56, 32>>,
    <<109, 56, 32>>, <<110, 56, 32>>, <<111, 56, 32>>, <<0, 0, 0>>, <<0,
    0, 0>>, <<0, 0, 0>>, <<0, 0, 0>>, <<0, 0, 0>>, <<0, 0, 0>>, <<0, 0,
    0>>, <<0, 0, 0>>, <<0, 0, 0>>, <<0, 0, 0>>, <<0, 0, 0>>, <<0, 0,
    0>>, <<0, 0, 0>>, <<0, 0, 0>>, <<0, 0, 0>>, <<0, 0, 0>>, <<0, 0,
    0>>, <<0, 0, 0>>, <<0, 0, 0>>, <<0, 0, 0>>, <<0, 0, 0>>, <<0, 0,
    0>>, <<0, 0, 0>>, <<0, 0, 0>>, <<0, 0, 0>>, <<0, 0, 0>>, <<0, 0,
    0>>, <<0, 0, 0>>, <<0, 0, 0>>, <<0, 0, 0>>, <<0, 0, 0>>, <<0, 0,
    0>>, <<0, 0, 0>>, <<0, 0, 0>>, <<0, 0, 0>>, <<0, 0, 0>>, <<0, 0,
    0>>, <<0, 0, 0>>, <<0, 0, 0>>, <<0, 0, 0>>, <<0, 0, 0>>, <<0, 0,
    0>>, <<0, 0, 0>>, <<0, 0, 0>>, <<0, 0, 0>>, <<0, 0, 0>>, <<0, 0,
    0>>, <<0, 0, 0>>, <<0, 0, 0>>
  >>,
  <<
    <<0, 24, 32>>, <<0, 24, 0>>, <<0, 24, 0>>, <<0, 24, 0>>, <<0, 24,
    0>>, <<0, 24, 0>>, <<0, 24, 0>>, <<0, 24, 32>>, <<1, 24, 32>>, <<2,
    24, 32>>, <<4, 24, 32>>, <<4, 56, 32>>, <<5, 56, 32>>, <<6, 56,
    32>>, <<7, 56, 32>>, <<8, 56, 32>>, <<9, 56, 32>>, <<10, 56, 32>>,
    <<11, 56, 32>>, <<12, 56, 32>>, <<13, 56, 32>>, <<14, 56, 32>>,
    <<15, 56, 32>>, <<37, 56, 32>>, <<38, 56, 32>>, <<68, 56, 32>>,
    <<69, 56, 32>>, <<70, 56, 32>>, <<71, 56, 32>>, <<100, 56, 32>>,
    <<101, 56, 32>>, <<102, 56, 32>>, <<103, 56, 32>>, <<104, 56, 32>>,
    <<105, 56, 32>>, <<106, 56, 32>>, <<107, 56, 32>>, <<108, 56, 32>>,
    <<109, 56, 32>>, <<110, 56, 32>>, <<111, 56, 32>>, <<0, 0, 0>>, <<0,
    0, 0>>, <<0, 0, 0>>, <<0, 0, 0>>, <<0, 0, 0>>, <<0, 0, 0>>, <<0, 0,
    0>>, <<0, 0, 0>>, <<0, 0, 0>>, <<0, 0, 0>>, <<0, 0, 0>>, <<0, 0,
    0>>, <<0, 0, 0>>, <<0, 0, 0>>, <<0, 0, 0>>, <<0, 0, 0>>, <<0, 0,
    0>>, <<0, 0, 0>>, <<0, 0, 0>>, <<0, 0, 0>>, <<0, 0, 0>>, <<0, 0,
    0>>, <<0, 0, 0>>, <<0, 0, 0>>, <<0, 0, 0>>, <<0, 0, 0>>, <<0, 0,
    0>>, <<0, 0, 0>>, <<0, 0, 0>>, <<0, 0, 0>>, <<0, 0, 0>>, <<0, 0,
    0>>, <<0, 0, 0>>, <<0, 0, 0>>, <<0, 0, 0>>, <<0, 0, 0>>, <<0, 0,
    0>>, <<0, 0, 0>>, <<0, 0, 0>>, <<0, 0, 0>>, <<0, 0, 0>>, <<0, 0,
    0>>, <<0, 0, 0>>, <<0, 0, 0>>, <<0, 0, 0>>, <<0, 0, 0>>, <<0, 0,
    0>>, <<0, 0, 0>>, <<0, 0, 0>>
  >>,
  <<
    <<0, 24, 32>>, <<0, 24, 0>>, <<0, 24, 0>>, <<0, 24, 0>>, <<0, 24,
    0>>, <<0, 24, 0>>, <<0, 24, 0>>, <<0, 24, 0>>, <<0, 24, 0>>, <<0,
    24, 0>>, <<1, 24, 32>>, <<2, 24, 32>>, <<4, 24, 32>>, <<4, 56, 32>>,
    <<5, 56, 32>>, <<6, 56, 32>>, <<7, 56, 32>>, <<8, 56, 32>>, <<9, 56,
    32>>, <<10, 56, 32>>, <<11, 56, 32>>, <<12, 56, 32>>, <<13, 56,
    32>>, <<14, 56, 32>>, <<15, 56, 32>>, <<98, 56, 32>>, <<37, 56,
    32>>, <<38, 56, 32>>, <<68, 56, 32>>, <<100, 56, 32>>, <<101, 56,
    32>>, <<102, 56, 32>>, <<103, 56, 32>>, <<104, 56, 32>>, <<105, 56,
    32>>, <<106, 56, 32>>, <<107, 56, 32>>, <<108, 56, 32>>, <<109, 56,
    32>>, <<110, 56, 32>>, <<111, 56, 32>>, <<0, 0, 0>>, <<0, 0, 0>>,
    <<0, 0, 0>>, <<0, 0, 0>>, <<0, 0, 0>>, <<0, 0, 0>>, <<0, 0, 0>>,
    <<0, 0, 0>>, <<0, 0, 0>>, <<0, 0, 0>>, <<0, 0, 0>>, <<0, 0, 0>>,
    <<0, 0, 0>>, <<0, 0, 0>>, <<0, 0, 0>>, <<0, 0, 0>>, <<0, 0, 0>>,
    <<0, 0, 0>>, <<0, 0, 0>>, <<0, 0, 0>>, <<0, 0, 0>>, <<0, 0, 0>>,
    <<0, 0, 0>>, <<0, 0, 0>>, <<0, 0, 0>>, <<0, 0, 0>>, <<0, 0, 0>>,
    <<0, 0, 0>>, <<0, 0, 0>>, <<0, 0, 0>>, <<0, 0, 0>>, <<0, 0, 0>>,
    <<0, 0, 0>>, <<0, 0, 0>>, <<0, 0, 0>>, <<0, 0, 0>>, <<0, 0, 0>>,
    <<0, 0, 0>>, <<0, 0, 0>>, <<0, 0, 0>>, <<0, 0, 0>>, <<0, 0, 0>>,
    <<0, 0, 0>>, <<0, 0, 0>>, <<0, 0, 0>>, <<0, 0, 0>>, <<0, 0, 0>>,
    <<0, 0, 0>>, <<0, 0, 0>>
  >>
 >>

\* new_from_recommended: let abs_gain_tbl, the split tables
abs_gain_tbl_Split ==
 <<
  <<
    -1, -1, -1, -1, -1, -1, -1, 2, 8, 13, 19, 20, 21, 22, 23, 24, 25,
    26, 27, 28, 29, 30, 31, 32, 33, 34, 35, 36, 37, 38, 39, 40, 41, 42,
    43, 44, 45, 46, 47, 48, 49, 0, 0, 0, 0, 0, 0, 0, 0, 0, 0, 0, 0, 0,
    0, 0, 0, 0, 0, 0, 0, 0, 0, 0, 0, 0, 0, 0, 0, 0, 0, 0, 0, 0, 0, 0, 0,
    0, 0, 0, 0, 0, 0, 0, 0, 0, 0, 0, 0, 0
  >>,
  <<
    -3, -3, -3, -3, -3, -3, -3, -3, 0, 6, 12, 18, 19, 20, 21, 22, 23,
    24, 25, 26, 27, 28, 29, 30, 31, 32, 33, 34, 35, 36, 37, 38, 39, 40,
    41, 42, 43, 44, 45, 46, 47, 0, 0, 0, 0, 0, 0, 0, 0, 0, 0, 0, 0, 0,
    0, 0, 0, 0, 0, 0, 0, 0, 0, 0, 0, 0, 0, 0, 0, 0, 0, 0, 0, 0, 0, 0, 0,
    0, 0, 0, 0, 0, 0, 0, 0, 0, 0, 0, 0, 0
  >>,
  <<
    -10, -10, -10, -10, -10, -10, -10, -10, -10, -10, -7, -2, 3, 9, 10,
    11, 12, 13, 14, 15, 16, 17, 18, 19, 20, 22, 24, 25, 26, 27, 28, 29,
    30, 31, 32, 33, 34, 35, 36, 37, 38, 0, 0, 0, 0, 0, 0, 0, 0, 0, 0, 0,
    0, 0, 0, 0, 0, 0, 0, 0, 0, 0, 0, 0, 0, 0, 0, 0, 0, 0, 0, 0, 0, 0, 0,
    0, 0, 0, 0, 0, 0, 0, 0, 0, 0, 0, 0, 0, 0, 0
  >>
 >>

\* bindings::gain_table_info: the fields the methods read and write
gt_null == [max_index |-> 0, split_table |-> 0]

\* no gain table has been made
NoGainTable == [kind |-> "none"]

NoGainCall == [op |-> "none"]

\* GainTable::new_from_recommended(kind, frequency), frequency in MHz.
\* The arrays are 0-based in the source and 1-based here; index keeps the
\* source's value.
new_from_recommended(kind, frequency) ==
    LET index == IF frequency < LowBandMHz THEN 0
                 ELSE IF frequency < MidBandMHz THEN 1 ELSE 2
    IN  IF kind = "Full"
        THEN [kind |-> kind,
              info |-> [i \in 1..InfoCapacity |->
                          IF i = 1
                          THEN [max_index |-> SizeFullTable,
                                split_table |-> 0]
                          ELSE gt_null],
              index |-> 0,
              abs_gain_tbl |-> abs_gain_tbl_Full[index + 1],
              table |-> table_Full[index + 1]]
        ELSE [kind |-> kind,
              info |-> [i \in 1..InfoCapacity |->
                          IF i = SplitInfoIndex + 1
                          THEN [max_index |-> SizeSplitTable,
                                split_table |-> 1]
                          ELSE gt_null],
              index |-> SplitInfoIndex,
              abs_gain_tbl |-> abs_gain_tbl_Split[index + 1],
              table |-> table_Split[index + 1]]

\* GainTable::kind()
GainTableKind(t) ==
    IF t.info[t.index + 1].split_table = 1 THEN "Split" ELSE "Full"

\* GainTable::max_index()
max_index(t) == t.info[t.index + 1].max_index

\* GainEntry
GainEntry(reg131, reg132, reg133, abs_gain) ==
    [reg131 |-> reg131, reg132 |-> reg132, reg133 |-> reg133,
     abs_gain |-> abs_gain]

\* table[index - 1] and abs_gain_tbl[index - 1] are inside the arrays
InTable(index) == index - 1 >= 0 /\ index - 1 < TableCapacity

\* get_entry(index) panics: at its debug assertions, or at the bounds
\* check of the array
get_entry_refuses(t, index) ==
    \/ ~InTable(index)
    \/ debug_assertions /\ ~(index <= t.info[1].max_index)

\* get_entry(index), where it returns
get_entry(t, index) ==
    GainEntry(t.table[index][1], t.table[index][2], t.table[index][3],
              t.abs_gain_tbl[index])

\* set_entry(index, e) panics: at its debug assertions, or at the bounds
\* check of the array
set_entry_refuses(index) == ~InTable(index)

\* set_entry(index, e), where it returns
set_entry(t, index, e) ==
    LET m == t.info[t.index + 1].max_index
        i == index % (U8Max + 1)
    IN  [t EXCEPT
           !.table[index] = <<e.reg131, e.reg132, e.reg133>>,
           !.abs_gain_tbl[index] = e.abs_gain,
           !.info[t.index + 1].max_index = IF i > m THEN i ELSE m]

FrequencySamples == {LowBandMHz - 1, LowBandMHz, MidBandMHz}
IndexSamples ==
    {0, 1, SizeSplitTable + 1, TableCapacity, TableCapacity + MaxExcess}
EntrySamples == {GainEntry(111, 56, 32, 73), GainEntry(U8Max, 0, 1, -128)}

\* let mut gt = GainTable::new_from_recommended(kind, frequency)
NewFromRecommended(k, frequency) ==
    /\ gt' = new_from_recommended(k, frequency)
    /\ gt_ret' = [op |-> "new_from_recommended"]
    /\ UNCHANGED <<allocVars, handleVars, cb, accessVars, threads,
                   txn, fir, fir_ret>>

\* gt.set_entry(index, e)
SetEntry(index, e) ==
    /\ gt.kind # "none"
    /\ IF set_entry_refuses(index)
       THEN /\ UNCHANGED gt
            /\ gt_ret' = [op |-> "set_entry", index |-> index, e |-> e,
                          panicked |-> TRUE]
       ELSE /\ gt' = set_entry(gt, index, e)
            /\ gt_ret' = [op |-> "set_entry", index |-> index, e |-> e,
                          panicked |-> FALSE]
    /\ UNCHANGED <<allocVars, handleVars, cb, accessVars, threads,
                   txn, fir, fir_ret>>

\* gt.get_entry(index)
GetEntry(index) ==
    /\ gt.kind # "none"
    /\ IF get_entry_refuses(gt, index)
       THEN gt_ret' = [op |-> "get_entry", index |-> index,
                       e |-> GainEntry(0, 0, 0, 0), panicked |-> TRUE]
       ELSE gt_ret' = [op |-> "get_entry", index |-> index,
                       e |-> get_entry(gt, index), panicked |-> FALSE]
    /\ UNCHANGED <<allocVars, handleVars, cb, accessVars, threads,
                   txn, fir, fir_ret,
                   gt>>

\* ------------------------------------------- handles made by threads

\* the threads of the program that call Ad9361::new and drop the handle
Threads == 1..MaxThreads

\* a thread that holds no handle and has made no call
NoThread == [at |-> "idle", last |-> "none"]

\* a read of TAKEN where the swap is
swap_LoadOnly(val) == [seen |-> TAKEN, stored |-> TAKEN]

\* TAKEN.swap(val, Ordering::AcqRel): one atomic step that stores val and
\* returns what it found
swap(val) == [seen |-> TAKEN, stored |-> val]

\* what a thread does leaves the rest of the program as it is
ThreadStep ==
    UNCHANGED <<allocVars, handles, DELAY_MS, DELAY_US, DELAY_OBJECT, pc,
                cur, phys, building, ffi_log, res, cb, accessVars, txn, fir,
                fir_ret, gt, gt_ret>>

\* new(): the swap of TAKEN and the panic when it was set
ThreadNewSwap(t) ==
    /\ threads[t].at = "idle"
    /\ TAKEN' = swap(TRUE).stored
    /\ threads' = [threads EXCEPT ![t] =
          IF swap(TRUE).seen THEN [at |-> "idle", last |-> "panic"]
          ELSE [at |-> "new", last |-> threads[t].last]]
    /\ ThreadStep

\* new(): Self { .. } is built and returned
ThreadNewReturn(t) ==
    /\ threads[t].at = "new"
    /\ threads' = [threads EXCEPT ![t] = [at |-> "live", last |-> "handle"]]
    /\ UNCHANGED TAKEN
    /\ ThreadStep

\* drop(): self.free_inner()
ThreadDropFreeInner(t) ==
    /\ threads[t].at = "live"
    /\ threads' = [threads EXCEPT ![t].at = "drop"]
    /\ UNCHANGED TAKEN
    /\ ThreadStep

\* drop(): assert!(TAKEN.swap(false, Ordering::AcqRel))
ThreadDropSwap(t) ==
    /\ threads[t].at = "drop"
    /\ TAKEN' = swap(FALSE).stored
    /\ threads' = [threads EXCEPT ![t] =
          [at |-> "idle",
           last |-> IF swap(FALSE).seen THEN "dropped" ELSE "drop_panic"]]
    /\ ThreadStep

\* The statics as the program starts, in either build profile.
Init ==
    /\ HEAP_START = NULL
    /\ HEAP_TOP = NULL
    /\ HEAP_PREVIOUS = NULL
    /\ HEAP_END = NULL
    /\ SCRATCHPAD_ALLOCATED = 0
    /\ debug_assertions \in BOOLEAN
    /\ ret = Call("start", 0, 0, NoPtr, FALSE)
    /\ written = {}
    /\ issued = <<>>
    /\ lastReturned = NULL
    /\ TAKEN = FALSE
    /\ handles = [h \in Handles |-> NoHandle]
    /\ DELAY_MS = NULL
    /\ DELAY_US = NULL
    /\ DELAY_OBJECT = NULL
    /\ pc = "idle"
    /\ cur = 0
    /\ phys = <<>>
    /\ building = {}
    /\ ffi_log = <<>>
    /\ res = Outcome("start", 0, NoStatus, FALSE, TRUE)
    /\ cb = NoCallback
    /\ stored = NoStore
    /\ returned = NoReturn
    /\ txn = NoTransaction
    /\ fir = NoFir
    /\ fir_ret = NoFirCall
    /\ gt = NoGainTable
    /\ gt_ret = NoGainCall
    /\ threads = [t \in Threads |-> NoThread]

NextAlloc ==
    \/ \E start \in HeapStarts, len \in HeapLens :
          InitAdmalloc(start, len) /\ UNCHANGED <<handleVars, sideVars>>
    \/ \E size \in Sizes : Admalloc(size) /\ UNCHANGED <<handleVars, sideVars>>
    \/ \E nmemb \in Nmembs, size \in Sizes :
          Adcalloc(nmemb, size) /\ UNCHANGED <<handleVars, sideVars>>
    \/ \E ptr \in FreePtrs : Adfree(ptr) /\ UNCHANGED <<handleVars, sideVars>>

SpecAlloc == Init /\ [][NextAlloc]_vars

Next ==
    \/ \E h \in Handles, resetb \in BOOLEAN :
          New(h, resetb, MaxHeapLen) /\ Quiet
    \/ \E h \in Handles : InitCall(h) /\ Quiet
    \/ \E ptr \in FreePtrs : DriverRemoveFree(ptr) /\ Quiet
    \/ RemoveReturn /\ Quiet
    \/ \E size \in DriverSizes : DriverAlloc(size) /\ Quiet
    \/ \E ptr \in FreePtrs : DriverInitFree(ptr) /\ Quiet
    \/ \E status \in Statuses : InitReturn(status) /\ Quiet
    \/ \E kind \in CallbackKinds : DriverCallback(kind)
    \/ \E h \in Handles, shape \in Shapes, status \in Statuses :
          Accessor(h, shape, status) /\ Quiet
    \/ \E h \in Handles : Drop(h) /\ Quiet
    \/ \E h \in Handles, addr \in HandleAddrs : Move(h, addr) /\ Quiet

Spec == Init /\ [][Next]_vars

\* The typed API over the life of the handles: the driver's allocations
\* and callbacks and the reset pin are left to Spec.
\* the handle whose typed API is followed: the accessors are one code for
\* every SPI, DELAY and RESETB type
Accessed == {1}

NextAccess ==
    \/ \E h \in Accessed : New(h, TRUE, MaxHeapLen) /\ Lifecycle
    \/ \E h \in Accessed : InitCall(h) /\ Lifecycle
    \/ RemoveReturn /\ Lifecycle
    \/ \E status \in Statuses : InitReturn(status) /\ Lifecycle
    \/ \E h \in Accessed : Drop(h) /\ Lifecycle
    \/ \E h \in Accessed, name \in DOMAIN SetCodec :
          \E channel \in Channels(name), v \in Domain(SetCodec[name]) :
             Set(h, name, channel, v)
    \/ \E h \in Accessed, name \in DOMAIN GetCodec :
          \E channel \in Channels(name) : Get(h, name, channel)
    \/ \E h \in Accessed, tx, clock_changed \in BOOLEAN :
          \E clock_delay, data_delay \in DelaySamples :
             set_intf_delay(h, tx, clock_delay, data_delay, clock_changed)
    \/ \E h \in Accessed, rx_on_chip_term, lvds_tx_lo_vcm \in BOOLEAN :
          \E lvds_bias_m_v \in LvdsBiasSamples :
             set_lvds_bias_control(h, rx_on_chip_term, lvds_tx_lo_vcm,
                                   lvds_bias_m_v)

SpecAccess == Init /\ [][NextAccess]_vars

\* The transaction wrapper over the frames it is handed.
NextTransaction ==
    \/ \E b0 \in 0..U8Max, b1 \in ByteSamples, b2 \in ByteSamples :
          Decode(b0, b1, b2)
    \/ DropTransaction

SpecTransaction == Init /\ [][NextTransaction]_vars

\* The FIR builders over the chains of calls made on them.
NextFir ==
    \/ \E kind \in {"tx", "rx"} : FirDefault(kind)
    \/ \E len \in SliceLengths, first \in SliceFirsts :
          SetCoef(Slice(len, first))
    \/ GetCoef

SpecFir == Init /\ [][NextFir]_vars

\* A gain table a caller makes, edits and reads.
NextGainTable ==
    \/ \E k \in {"Full", "Split"}, frequency \in FrequencySamples :
          NewFromRecommended(k, frequency)
    \/ \E index \in IndexSamples, e \in EntrySamples : SetEntry(index, e)
    \/ \E index \in IndexSamples : GetEntry(index)

SpecGainTable == Init /\ [][NextGainTable]_vars

\* One handle initialised again and again: the driver builds a state of
\* small blocks in ad9361_init and frees blocks of it in ad9361_remove.
NextReinit ==
    \/ \E h \in Accessed, resetb \in BOOLEAN :
          New(h, resetb, MaxHeapLen) /\ Quiet
    \/ \E h \in Accessed : InitCall(h) /\ Quiet
    \/ \E ptr \in FreePtrs : DriverRemoveFree(ptr) /\ Quiet
    \/ RemoveReturn /\ Quiet
    \/ \E size \in SmallDriverSizes : DriverAlloc(size) /\ Quiet
    \/ \E ptr \in FreePtrs : DriverInitFree(ptr) /\ Quiet
    \/ \E status \in Statuses : InitReturn(status) /\ Quiet
    \/ \E h \in Accessed : Drop(h) /\ Quiet

SpecReinit == Init /\ [][NextReinit]_vars

\* The reset line over the life of one handle, with or without a pin.
NextReset ==
    \/ \E h \in Accessed, resetb \in BOOLEAN :
          New(h, resetb, MaxHeapLen) /\ Quiet
    \/ \E h \in Accessed : InitCall(h) /\ Quiet
    \/ RemoveReturn /\ Quiet
    \/ \E status \in Statuses : InitReturn(status) /\ Quiet
    \/ \E level \in Levels, result \in PinResults :
          DriverGpioSetValue(level, result)
    \/ \E h \in Accessed : Drop(h) /\ Quiet
    \/ \E h \in Accessed, addr \in HandleAddrs : Move(h, addr) /\ Quiet

SpecReset == Init /\ [][NextReset]_vars

\* Threads that call new() and drop their handle, in every interleaving
\* of their steps.
NextThreads ==
    \/ \E t \in Threads : ThreadNewSwap(t)
    \/ \E t \in Threads : ThreadNewReturn(t)
    \/ \E t \in Threads : ThreadDropFreeInner(t)
    \/ \E t \in Threads : ThreadDropSwap(t)

SpecThreads == Init /\ [][NextThreads]_vars

\* The allocator under one init_admalloc and the allocations that succeed:
\* the sequences of admalloc and adfree a caller makes after init.
NextRewind ==
    \/ \E len \in HeapLens :
          /\ HEAP_START = NULL
          /\ InitAdmalloc(HeapAddr, len)
          /\ UNCHANGED <<handleVars, sideVars>>
    \/ \E size \in Sizes :
          /\ HEAP_START # NULL
          /\ ~Malloc(size).panicked
          /\ Admalloc(size)
          /\ UNCHANGED <<handleVars, sideVars>>
    \/ \E ptr \in FreePtrs :
          /\ HEAP_START # NULL
          /\ Adfree(ptr)
          /\ UNCHANGED <<handleVars, sideVars>>

SpecRewind == Init /\ [][NextRewind]_vars

\* ------------------------------------------------------ allocator claims

\* ceil(size / 4), as the specification states it
CeilWords(size) == IF size % 4 = 0 THEN size \div 4 ELSE size \div 4 + 1

HeapRequest(r) ==
    r.op \in {"admalloc", "adcalloc"} /\ Requested(r) >= ScratchpadLen

C6_ScratchpadSingleOccupancy ==
    [][/\ (ret'.op = "admalloc" /\ ret'.a < ScratchpadLen) =>
             IF SCRATCHPAD_ALLOCATED = 0
             THEN /\ ~ret'.panicked
                  /\ ret'.ptr = ScratchpadAddr
                  /\ SCRATCHPAD_ALLOCATED' = 1
             ELSE /\ ret'.panicked
                  /\ ret'.ptr # ScratchpadAddr
       /\ (ret'.op = "adfree" /\ ret'.a = ScratchpadAddr) =>
             SCRATCHPAD_ALLOCATED' = 0]_vars

\* C7: a successful heap admalloc returns the cursor as it was before the
\* call and advances it by exactly ceil(size/4) words; the cursor never
\* decreases over such calls and the blocks issued in sequence do not
\* overlap, byte for byte.
C7_BumpAdvance ==
    /\ [][(ret'.op = "admalloc" /\ ret'.a >= ScratchpadLen /\ ~ret'.panicked) =>
             /\ ret'.ptr = HEAP_TOP
             /\ HEAP_TOP' = HEAP_TOP + 4 * CeilWords(ret'.a)
             /\ HEAP_TOP' >= HEAP_TOP]_vars
    /\ [](\A i, j \in 1..Len(issued) :
             i < j => issued[i].ptr + issued[i].size <= issued[j].ptr)

\* two blocks were issued in sequence, the first of a size that is no
\* multiple of the word
C7_Witness ==
    /\ Len(issued) >= 2
    /\ issued[1].size % 4 # 0
    /\ ret.op = "admalloc"
    /\ ~ret.panicked

FreeOfBase(r) == r.op = "adfree" /\ r.a = HEAP_START /\ HEAP_START # NULL

\* C8: adfree(heap base) puts the cursor at the heap base whatever came
\* before; a second one changes nothing; and the heap allocation that
\* follows succeeds exactly when it fits the whole heap, returning the base.
C8_FreeBaseResets ==
    [][/\ FreeOfBase(ret') =>
             /\ HEAP_TOP' = HEAP_START
             /\ UNCHANGED <<HEAP_START, HEAP_END>>
       /\ (FreeOfBase(ret) /\ FreeOfBase(ret')) => UNCHANGED allocStatics
       /\ (FreeOfBase(ret) /\ HeapRequest(ret')) =>
             /\ ret'.panicked <=>
                   (4 * CeilWords(Requested(ret')) > HEAP_END - HEAP_START)
             /\ ~ret'.panicked => ret'.ptr = HEAP_START]_vars

\* adfree(heap base) has acted: the cursor is back at the base although a
\* block beyond the base had been handed out
C8_Witness ==
    /\ FreeOfBase(ret)
    /\ HEAP_TOP = HEAP_START
    /\ HEAP_PREVIOUS > HEAP_START
    /\ lastReturned > HEAP_START

\* C9: adfree(p) with p null, or p none of the scratchpad address, the heap
\* base and the most recently returned heap allocation, leaves the whole
\* allocator state as it was.
C9_ForeignFreeIsNoOp ==
    [][(/\ ret'.op = "adfree"
        /\ \/ ret'.a = NULL
           \/ ret'.a \notin {ScratchpadAddr, HEAP_START, lastReturned})
       => UNCHANGED allocStatics]_vars

\* C10: adcalloc(count, size) zero-fills exactly the count*size bytes of the
\* region admalloc(count*size) returned: every byte of the region, and no
\* byte outside it.
C10_CallocZeroFillsRegion ==
    [][(ret'.op = "adcalloc" /\ ~ret'.panicked) =>
          written' = {ret'.ptr + i : i \in 0..(ret'.a * ret'.b - 1)}]_vars

\* --------------------------------------------------------- handle claims

LiveHandles == {h \in Handles : handles[h].live}

\* C1: at most one handle is live in every reachable state; new() panics
\* exactly when a handle is live, leaving that handle and TAKEN as they
\* were; otherwise (at the start, or after the live handle was dropped) it
\* returns a handle.
C1_SingleInstance ==
    /\ [](Cardinality(LiveHandles) <= 1 /\ (LiveHandles # {} => TAKEN))
    /\ [][res'.op = "new" =>
             /\ res'.panicked <=> (LiveHandles # {})
             /\ res'.panicked => (handles' = handles /\ TAKEN' = TAKEN)
             /\ ~res'.panicked => handles'[res'.h].live]_vars

\* a second new() panicked while an initialised handle was live
C1_Witness ==
    /\ res.op = "new"
    /\ res.panicked
    /\ \E h \in LiveHandles : h # res.h /\ handles[h].inner # NULL

\* C2: an accessor of any of the four shapes, called on a handle on which
\* init() was never called, panics without a call into the driver.
C2_AccessorBeforeInitPanics ==
    [][(res'.op \in Shapes /\ ~handles[res'.h].init_called) =>
          (res'.panicked /\ ffi_log' = <<>>)]_vars

\* an accessor panicked on a live handle that init() was never called on
C2_Witness ==
    /\ res.op = "GET"
    /\ res.panicked
    /\ handles[res.h].live
    /\ ~handles[res.h].init_called

Unreleased == {p \in 1..Len(phys) : phys[p].released = 0}
HeldStates == {handles[h].inner : h \in LiveHandles} \ {NULL}

\* C3: no foreign state is released twice; the foreign states not yet
\* released are exactly those a live handle holds (none is leaked by a
\* further init() or by drop); and whenever ad9361_init runs, the state of
\* the previous initialisation has been released by ad9361_remove first.
C3_InitReleasesPriorState ==
    /\ \A p \in 1..Len(phys) : phys[p].released <= 1
    /\ Unreleased = HeldStates
    /\ pc = "init_driver" =>
          /\ Unreleased = {}
          /\ ffi_log \in {<<[fn |-> "ad9361_init"]>>,
                          <<[fn |-> "ad9361_remove"], [fn |-> "ad9361_init"]>>}

\* a second init() on an initialised handle released the first foreign
\* state and installed a fresh one
C3_Witness ==
    /\ Len(phys) = 2
    /\ phys[1].released = 1
    /\ res = Outcome("init", res.h, 0, FALSE, TRUE)
    /\ ffi_log = <<[fn |-> "ad9361_remove"], [fn |-> "ad9361_init"]>>
    /\ res.h \in LiveHandles
    /\ handles[res.h].inner = 2

\* C4: once init() has run on a handle, the addresses init() handed to the
\* driver and to the delay slot are still the addresses of the handle's own
\* fields (the handle has not been relocated).
C4_InitialisedHandleStaysPut ==
    \A h \in LiveHandles :
        handles[h].init_called =>
            /\ handles[h].spi_extra = handles[h].addr + OffSpi
            /\ DELAY_OBJECT = handles[h].addr + OffDelay
            /\ handles[h].inner # NULL =>
                  phys[handles[h].inner].spi_desc = handles[h].addr + OffParams

\* C11: every spi_write_and_read callback invokes the wrapper specialised
\* for the handle's SPI type on the address of the handle's own `spi` field,
\* and every gpio_set_value callback that invokes a wrapper invokes the one
\* for the handle's RESETB type on the handle's own reset-pin object.
C11_CallbacksReachOwnPeripherals ==
    [][/\ cb'.fn = "spi_write_and_read" =>
             /\ cb'.ops = TypeOf(cb'.h)
             /\ cb'.obj = handles'[cb'.h].addr + OffSpi
       /\ (cb'.fn = "gpio_set_value" /\ cb'.invoked) =>
             /\ cb'.ops = TypeOf(cb'.h)
             /\ cb'.obj = handles'[cb'.h].addr + OffResetb]_vars

\* C12: whenever the driver calls mdelay or udelay the three delay slots are
\* non-null and are the delay wrappers and the delay object of the handle
\* whose foreign call is running, both callbacks using DELAY_OBJECT; and
\* every init() binds all three slots to its own handle.
C12_DelayBoundToCallingHandle ==
    [][/\ cb'.fn \in {"mdelay", "udelay"} =>
             /\ DELAY_MS' # NULL /\ DELAY_US' # NULL /\ DELAY_OBJECT' # NULL
             /\ cb'.invoked
             /\ cb'.ops = TypeOf(cb'.h)
             /\ cb'.obj = DELAY_OBJECT'
             /\ cb'.obj = handles'[cb'.h].addr + OffDelay
       /\ (pc = "idle" /\ pc' # "idle" /\ res'.op = "init") =>
             /\ DELAY_MS' = TypeOf(res'.h)
             /\ DELAY_US' = TypeOf(res'.h)
             /\ DELAY_OBJECT' = handles'[res'.h].addr + OffDelay]_vars

\* --------------------------------------------------- typed-accessor claims

\* the calls whose Result carries a foreign status
Fallible ==
    DOMAIN SetCodec \cup DOMAIN GetCodec
        \cup {"init", "set_intf_delay", "set_lvds_bias_control"}

\* C13: init(), every Set and Get accessor, set_intf_delay and
\* set_lvds_bias_control return Ok exactly when the foreign call's status is
\* 0, and otherwise Err carrying that same status; a getter whose foreign
\* call gave a non-zero status returns no converted value.
C13_StatusPropagatedUnchanged ==
    (returned.name \in Fallible /\ returned.called) =>
        /\ (returned.result.kind = "Ok") <=> (returned.status = 0)
        /\ returned.status # 0 =>
              /\ returned.result.kind = "Err"
              /\ returned.result.v = returned.status

\* C14: for every property with a setter and a getter and every value v of
\* its type, a set_X(v) that returned Ok followed by a get_X() on the same
\* channel that the driver answers with status 0, the driver handing back
\* the raw value it was given, returns Ok(v).
C14_SetGetRoundTrip ==
    [][(/\ returned.name \in DOMAIN Getter
        /\ returned.result.kind = "Ok"
        /\ returned'.name = Getter[returned.name]
        /\ returned'.h = returned.h
        /\ returned'.channel = returned.channel
        /\ returned'.called
        /\ returned'.status = 0) =>
            /\ returned'.result.kind = "Ok"
            /\ returned'.result.v = returned.arg]_vars

\* the last variant of the widest enum, and with it the second TX port,
\* came back from the driver's store
C14_Witness ==
    /\ returned.name \in {"get_rx_rf_port_input", "get_tx_rf_port_output"}
    /\ returned.answered.getter = returned.name
    /\ returned.answered.raw \in {RxRfPortSelection.TX_MON1_2,
                                  TxRfPortSelection.TXB}
    /\ returned.result.kind = "Ok"
    /\ returned.result.v \in {"TX_MON1_2", "TXB"}

\* the raw values that are the discriminant of a variant
Discriminants(enum) == {enum[variant] : variant \in DOMAIN enum}

\* C15: for every raw value the driver reports, the getters of the
\* gain-control mode and of the RX and TX RF ports return a variant and do
\* not panic; a raw value that is no variant's discriminant yields the
\* default variant (A_BALANCED, TXB for the ports).
C15_OutOfRangeRawNeverPanics ==
    (/\ returned.name \in {"get_rx_gain_control_mode", "get_rx_rf_port_input",
                           "get_tx_rf_port_output"}
     /\ returned.called
     /\ returned.status = 0) =>
        /\ returned.result.kind = "Ok"
        /\ (/\ returned.name = "get_rx_rf_port_input"
            /\ returned.raw \notin Discriminants(RxRfPortSelection)) =>
               returned.result.v = "A_BALANCED"
        /\ (/\ returned.name = "get_tx_rf_port_output"
            /\ returned.raw \notin Discriminants(TxRfPortSelection)) =>
               returned.result.v = "TXB"
        /\ (/\ returned.name = "get_rx_gain_control_mode"
            /\ returned.raw \notin Discriminants(RfGainControlMode)) =>
               returned.result.v \in DOMAIN RfGainControlMode

\* C16: get_tx_lo_power decodes raw 1 as On and raw 0 as Off, so that a
\* get_tx_lo_power() answered with status 0 after tx_lo_powerdown(Off)
\* returned Ok reports Off.
C16_LoPowerSenseInverted ==
    [][/\ (/\ returned'.name = "get_tx_lo_power"
           /\ returned'.called
           /\ returned'.status = 0) =>
              /\ returned'.raw = 1 => returned'.result = Ok("On")
              /\ returned'.raw = 0 => returned'.result = Ok("Off")
       /\ (/\ returned.name = "tx_lo_powerdown"
           /\ returned.arg = "Off"
           /\ returned.result.kind = "Ok"
           /\ returned'.name = "get_tx_lo_power"
           /\ returned'.h = returned.h
           /\ returned'.called
           /\ returned'.status = 0) =>
              returned'.result = Ok("Off")]_vars

\* the driver answered a get_tx_lo_power out of what tx_lo_powerdown(Off)
\* left it with, and the getter reported Off
C16_Witness ==
    /\ returned.name = "get_tx_lo_power"
    /\ returned.answered.getter = "get_tx_lo_power"
    /\ returned.raw = 0
    /\ returned.result = Ok("Off")

\* the call panicked before anything reached the driver: no foreign
\* function was called, no register write was handed over, and the
\* driver's states and what it holds are as they were
PanickedBeforeDriver ==
    /\ returned'.result = Panic
    /\ ~returned'.called
    /\ returned'.wrote = <<>>
    /\ ffi_log' = <<>>
    /\ UNCHANGED <<stored, phys, handles>>

\* C17: set_intf_delay panics when clock_delay >= 16 or data_delay >= 16,
\* set_lvds_bias_control panics when lvds_bias_m_v is outside [75, 450],
\* both panic on a handle that holds no initialised foreign state, and in
\* each of these cases nothing is written to the driver.
C17_RegisterSettersCheckFirst ==
    [][/\ (/\ returned'.name = "set_intf_delay"
           /\ \/ returned'.arg.clock_delay >= 16
              \/ returned'.arg.data_delay >= 16
              \/ handles[returned'.h].inner = NULL) => PanickedBeforeDriver
       /\ (/\ returned'.name = "set_lvds_bias_control"
           /\ \/ returned'.arg.lvds_bias_m_v < 75
              \/ returned'.arg.lvds_bias_m_v > 450
              \/ handles[returned'.h].inner = NULL) => PanickedBeforeDriver
      ]_vars

\* on an initialised handle whose driver holds a value, set_intf_delay was
\* called with data_delay >= 16 and a clock_delay within range, and panicked
C17_Witness ==
    /\ returned.name = "set_intf_delay"
    /\ returned.arg.data_delay >= 16
    /\ returned.arg.clock_delay < 16
    /\ handles[returned.h].inner # NULL
    /\ stored.getter # "none"
    /\ returned.result = Panic

\* C18: for every raw i32 value r that the driver reports with status 0,
\* get_temperature() returns Ok of r / 1000 degrees; a raw 2600 gives 2.6
\* to within 0.1.
C18_TemperatureInDegrees ==
    (/\ returned.name = "get_temperature"
     /\ returned.called
     /\ returned.status = 0) =>
        /\ returned.result.kind = "Ok"
        /\ returned.result.v.num = returned.raw
        /\ returned.result.v.den = 1000
        /\ returned.raw = 2600 =>
              /\ 10 * returned.result.v.num >= 25 * returned.result.v.den
              /\ 10 * returned.result.v.num <= 27 * returned.result.v.den

\* the driver reported 2600 and get_temperature returned a value
C18_Witness ==
    /\ returned.name = "get_temperature"
    /\ returned.status = 0
    /\ returned.raw = 2600
    /\ returned.result.kind = "Ok"

\* ------------------------------------------------------------ codec claims

\* C19: over a three-byte frame the register is (byte0 mod 4) * 256 + byte1
\* and below 1024, is_write is the top bit of byte0, the length is
\* ((byte0 div 16) mod 8) + 1 and within 1..8, and the value is byte2;
\* [0x80, 0x37, 0x00] is a write to 0x37 and [0x00, 0x37, 0x00] a read of it.
C19_TransactionDecode ==
    txn.bytes # <<>> =>
        /\ txn.register = (txn.bytes[1] % 4) * 256 + txn.bytes[2]
        /\ txn.register < 1024
        /\ txn.is_write <=> (txn.bytes[1] >= 128)
        /\ txn.length = ((txn.bytes[1] \div 16) % 8) + 1
        /\ txn.length \in 1..8
        /\ txn.value = txn.bytes[3]
        /\ txn.bytes = <<128, 55, 0>> => (txn.is_write /\ txn.register = 55)
        /\ txn.bytes = <<0, 55, 0>> => (~txn.is_write /\ txn.register = 55)

\* a write frame with every bit of byte0 set: the register's two high bits,
\* the longest length and the write flag at once
C19_Witness ==
    /\ txn.bytes = <<U8Max, 55, U8Max>>
    /\ txn.is_write
    /\ txn.register = 768 + 55
    /\ txn.length = 8
    /\ txn.value = U8Max

\* C20: tx_coef(c) or rx_coef(c) with at most 128 coefficients, followed by
\* get_tx_coef() or get_rx_coef(), gives back exactly c whatever the builder
\* held before; with more than 128 coefficients the builder panics.
C20_CoefficientsRoundTrip ==
    [][/\ (fir_ret'.op = "set_coef") =>
             (fir_ret'.panicked <=> Len(fir_ret'.arg) > 128)
       /\ (/\ fir_ret.op = "set_coef"
           /\ ~fir_ret.panicked
           /\ fir_ret'.op = "get_coef") =>
              fir_ret'.slice = fir_ret.arg]_vars

\* a builder that held 128 coefficients was given a shorter slice, and the
\* getter then returned that slice
C20_Witness ==
    /\ fir_ret.op = "get_coef"
    /\ Len(fir_ret.slice) = 1
    /\ fir.size = 1
    /\ fir.coef[CoefCapacity] \notin {0, fir.coef[1]}

\* ------------------------------------------- allocator claims, continued

\* C22: after init, over any sequence of admalloc and adfree (a full reset
\* by adfree(heap base) included), adfree(p) of the heap address returned
\* last puts the cursor at p, and the cursor is not above where it was.
C22_FreeOfLastRewinds ==
    [][(/\ ret'.op = "adfree"
        /\ lastReturned # NULL
        /\ ret'.a = lastReturned) =>
           /\ HEAP_TOP' = lastReturned
           /\ HEAP_TOP' <= HEAP_TOP]_vars

\* C27: once init_admalloc has run, HEAP_START <= HEAP_TOP <= HEAP_END in
\* every state that admalloc, adcalloc, adfree and init_admalloc reach.
C27_CursorWithinHeap ==
    HEAP_START # NULL => (HEAP_START <= HEAP_TOP /\ HEAP_TOP <= HEAP_END)

\* C28: init_admalloc resets the allocator whatever was called before it:
\* the calls that follow behave as they do after a first init_admalloc.
\* After a first init_admalloc no adfree moves the cursor off the heap base,
\* so neither may the adfree that follows any later init_admalloc.
C28_InitForgetsHistory ==
    [][(ret.op = "init_admalloc" /\ ret'.op = "adfree") =>
           HEAP_TOP' = HEAP_START']_vars

\* ------------------------------------------------------ gain table claims

\* C21: on a gain table of either kind and for an index in [1, 90],
\* set_entry(index, e) makes the get_entry(index) that follows return e,
\* and leaves max_index() at the larger of index and what it was: at least
\* index, and never less than before.
C21_SetThenGetEntry ==
    [][/\ (/\ gt_ret'.op = "set_entry"
           /\ gt_ret'.index \in 1..TableCapacity) =>
              /\ ~gt_ret'.panicked
              /\ max_index(gt') =
                    (IF gt_ret'.index > max_index(gt)
                     THEN gt_ret'.index ELSE max_index(gt))
       /\ (/\ gt_ret.op = "set_entry"
           /\ gt_ret.index \in 1..TableCapacity
           /\ gt_ret'.op = "get_entry"
           /\ gt_ret'.index = gt_ret.index) =>
              /\ ~gt_ret'.panicked
              /\ gt_ret'.e = gt_ret.e]_vars

\* ------------------------------------------------ handle claims, continued

\* C23: when init() runs on a handle that holds a foreign state, then at
\* the moment ad9361_init is called the bump cursor is at the heap base
\* and the scratchpad is free, whichever blocks ad9361_remove freed and in
\* whichever order.
C23_ReinitStartsFromEmptyHeap ==
    [][(pc = "init_remove" /\ pc' = "init_driver") =>
          /\ HEAP_TOP' = HEAP_START'
          /\ SCRATCHPAD_ALLOCATED' = 0]_vars

\* C24: drop() calls ad9361_remove exactly when the handle has is_init set
\* and a non-null inner, and while that call runs TAKEN is still set; TAKEN
\* is cleared as drop() ends, after the foreign state is released; drop()
\* panics exactly when it finds TAKEN clear.
C24_DropReleasesThenClears ==
    [][/\ (pc = "idle" /\ res'.op = "drop") =>
             /\ pc' = "drop_remove" <=>
                    (/\ handles[res'.h].is_init
                     /\ handles[res'.h].inner # NULL)
             /\ pc' = "drop_remove" =>
                    (/\ TAKEN' = TAKEN
                     /\ ~res'.done
                     /\ ffi_log' = <<[fn |-> "ad9361_remove"]>>)
             /\ pc' # "drop_remove" => (res'.done /\ ffi_log' = <<>>)
       /\ (pc = "drop_remove" /\ pc' = "drop_remove") => TAKEN' = TAKEN
       /\ (res'.op = "drop" /\ res'.done /\ (pc # "idle" \/ res # res')) =>
             /\ ~TAKEN'
             /\ res'.panicked <=> ~TAKEN
             /\ pc = "drop_remove" =>
                    phys'[handles[res'.h].inner].released = 1
             /\ ~handles'[res'.h].live]_vars

\* a drop() has released the foreign state of its handle and then cleared
\* TAKEN
C24_Witness ==
    /\ res.op = "drop"
    /\ res.done
    /\ ~res.panicked
    /\ ffi_log = <<[fn |-> "ad9361_remove"]>>
    /\ ~TAKEN

\* C25: gpio_get and gpio_get_optional return 0, and give a null
\* descriptor exactly for a negative pin number and the address of the
\* gpio_init_param otherwise, without allocating.  So the state that
\* ad9361_init builds for a handle made without a reset pin has a null
\* reset descriptor; for a handle made with one it has the address of the
\* handle's parameter, whose number is 1.
C25_ResetDescriptor ==
    [][(/\ pc = "init_driver"
        /\ pc' = "idle"
        /\ ~res'.panicked
        /\ res'.status = 0) =>
          LET hd == handles[cur]
              desc == phys'[Len(phys')].gpio_desc
              got == {gpio_get(hd.addr + OffParams, hd.gpio_number),
                      gpio_get_optional(hd.addr + OffParams, hd.gpio_number)}
          IN  /\ \A g \in got : g.status = 0 /\ g.desc = desc
              /\ desc = NULL <=> hd.gpio_number < 0
              /\ desc = NULL <=> ~hd.resetb
              /\ hd.resetb =>
                    (desc = hd.addr + OffParams /\ hd.gpio_number = 1)
              /\ allocStatics' = allocStatics]_vars

\* the driver holds a reset descriptor, of a handle made with a reset pin
C25_Witness ==
    /\ res.op = "init"
    /\ res.done
    /\ res.status = 0
    /\ handles[res.h].resetb
    /\ phys[handles[res.h].inner].gpio_desc = handles[res.h].addr + OffParams

\* C26: gpio_set_value with level 0 calls set_low on the object bound in
\* the descriptor and with any other level set_high; it returns 0 when the
\* pin method succeeds and a negative status when it fails; with a null
\* object address it calls nothing and returns 0.
C26_ResetLineTrampoline ==
    [][cb'.fn = "gpio_set_value" =>
          IF cb'.obj = NULL
          THEN /\ ~cb'.invoked
               /\ cb'.method = "none"
               /\ cb'.status = 0
          ELSE /\ cb'.invoked
               /\ cb'.method =
                    (IF cb'.value = 0 THEN "set_low" ELSE "set_high")
               /\ cb'.result = "Ok" => cb'.status = 0
               /\ cb'.result = "Err" => cb'.status < 0]_vars

\* the driver pulled the reset line low and the pin reported a failure
C26_Witness ==
    /\ cb.fn = "gpio_set_value"
    /\ cb.obj # NULL
    /\ cb.value = 0
    /\ cb.method = "set_low"
    /\ cb.result = "Err"
    /\ cb.status < 0

\* the threads that are past the swap of new() and not past that of drop()
OwningThreads == {t \in Threads : threads[t].at # "idle"}

\* C29: of the threads that call new() while no handle is live exactly one
\* gets a handle and every other panics; in no interleaving of new() and
\* drop() do two threads hold a handle, or one holds a handle while TAKEN
\* is false.
C29_OneHandleAcrossThreads ==
    [][/\ Cardinality({t \in Threads : threads'[t].at \in {"live", "drop"}})
            <= 1
       /\ \A t \in Threads :
             /\ threads'[t].at \in {"live", "drop"} => TAKEN'
             /\ (threads[t].at = "idle" /\ threads'[t] # threads[t]) =>
                   IF OwningThreads = {}
                   THEN threads'[t].at = "new"
                   ELSE /\ threads'[t].at = "idle"
                        /\ threads'[t].last = "panic"
             /\ threads'[t].last # "drop_panic"]_vars

\* one thread holds the handle and the other two calls of new() panicked
C29_Witness ==
    \E t \in Threads :
        /\ threads[t].at = "live"
        /\ \A u \in Threads \ {t} : threads[u].last = "panic"

\* ----------------------------------------- typed-accessor claims, continued

\* C30: a set_intf_delay that reaches the driver with clock_changed set
\* forces the state machine to Alert, writes the register, and forces it to
\* FDD, once each and in that order, whatever the write returns; with
\* clock_changed clear it only writes.  It writes register 7 for tx and 6
\* otherwise, the value clock_delay * 16 + data_delay, which is below 256;
\* and it returns Ok for a write status of 0 and Err of that status
\* otherwise, whatever the forcing returned.
C30_IntfDelaySequence ==
    [][(returned'.name = "set_intf_delay" /\ returned'.called) =>
          LET a == returned'.arg
              log == ffi_log'
              writes == {i \in 1..Len(log) : log[i].fn = "ad9361_spi_write"}
              forces == {i \in 1..Len(log) :
                           log[i].fn = "ad9361_ensm_force_state"}
          IN  /\ IF a.clock_changed
                 THEN /\ Len(log) = 3
                      /\ forces = {1, 3}
                      /\ log[1].state = 5
                      /\ log[3].state = 10
                 ELSE Len(log) = 1
              /\ writes = {IF a.clock_changed THEN 2 ELSE 1}
              /\ \A i \in writes :
                    /\ log[i].reg = (IF a.tx THEN 7 ELSE 6)
                    /\ log[i].val = a.clock_delay * 16 + a.data_delay
                    /\ log[i].val < 256
                    /\ log[i].status = returned'.status
              /\ returned'.result =
                    (IF returned'.status = 0 THEN Ok(Unit)
                     ELSE Err(returned'.status))]_vars

\* with clock_changed set the write failed where the forcing succeeded:
\* the state machine was still forced to FDD and the write's status came
\* back
C30_Witness ==
    /\ returned.name = "set_intf_delay"
    /\ returned.called
    /\ returned.arg.clock_changed
    /\ returned.status # 0
    /\ Len(ffi_log) = 3
    /\ ffi_log[1].status = 0
    /\ ffi_log[3].state = 10
    /\ returned.result = Err(returned.status)


====
